---------------------------- MODULE Spec2Model ----------------------------
(***************************************************************************)
(* Model of the article freshness pipeline of src/lib/articles.ts          *)
(* (loadArticles and the functions it calls) and of the manual overrides   *)
(* of src/app/dashboard.tsx.                                               *)
(*                                                                         *)
(* Time.  Instants are counted in ticks of 36 seconds since the epoch.     *)
(* 36 s divides a quarter of an hour (every timezone offset), a day and    *)
(* the 30.44-day month of line 343 (2 630 016 000 ms = 73056 ticks), so    *)
(* floor((now - t) / month) is the same in ticks as in milliseconds for    *)
(* every publish instant the parser can produce from a calendar date.      *)
(*                                                                         *)
(* Strings.  A CSV cell is a sequence of atoms; an atom is a run of        *)
(* whitespace (" ") or a run of text without surrounding whitespace.       *)
(* The regular expressions of the source are evaluated over the finite     *)
(* universe of titles TitleTexts: each ReL<n> lists the titles matched by   *)
(* the regular expression of line <n>.                                     *)
(***************************************************************************)
EXTENDS Integers, Sequences, FiniteSets, TLC

VARIABLES
    clock,      \* the wall clock, in ticks (what new Date() returns)
    tz,         \* offset of local time from UTC, in ticks (east positive)
    disk,       \* public/articles.csv as it is on disk
    pc,         \* position of loadArticles: "idle", "loop", "returned", "threw"
    now,        \* const now of line 330
    data,       \* the rows Papa.parse returned (line 329)
    idx,        \* forEach index of the next row (0-based)
    articles,   \* the articles array of line 331; the returned array once pc = "returned"
    evalLog,    \* evaluator calls observed so far: arguments, calendar year, result
    args,       \* the arguments of the evaluator call to come, <<>> when there is none
    overrides,  \* the overrides state of the Dashboard component (dashboard.tsx, line 149)
    storage,    \* the localStorage item "transak-freshness-overrides"
    shown,      \* what the Dashboard last rendered: enrichedArticles (line 175)
    saved       \* history: for each id, the override the editor last saved through
                \* onSave (line 455) and has not reset, with the title and URL of
                \* the article whose modal was open

vars == <<clock, tz, disk, pc, now, data, idx, articles, evalLog, args, overrides, storage, shown,
          saved>>

-----------------------------------------------------------------------------
(* Bounds of the model *)

\* most data rows of a batch file
MaxRows == 3
\* most evaluator calls kept in evalLog
MaxCalls == 2

-----------------------------------------------------------------------------
(* Calendar arithmetic of the JavaScript Date object *)

\* one day, 1000 * 60 * 60 * 24 ms, in ticks
DayTicks == 2400

\* 1000 * 60 * 60 * 24 * 30.44 ms, in ticks
MonthTicks == (DayTicks * 3044) \div 100

Max(a, b) == IF a >= b THEN a ELSE b

IsLeap(y) == (y % 4 = 0 /\ y % 100 # 0) \/ y % 400 = 0

DaysInMonth(y, m) ==
    IF m = 2 THEN (IF IsLeap(y) THEN 29 ELSE 28)
    ELSE IF m \in {4, 6, 9, 11} THEN 30 ELSE 31

\* day number (days since 1970-01-01) of the civil date y-m-d, m in 1..12;
\* d may lie outside the month and then counts on into the neighbouring ones
DaysFromCivil(y, m, d) ==
    LET yy  == IF m <= 2 THEN y - 1 ELSE y
        era == yy \div 400
        yoe == yy - era * 400
        mp  == IF m > 2 THEN m - 3 ELSE m + 9
        doy == (153 * mp + 2) \div 5 + d - 1
        doe == yoe * 365 + yoe \div 4 - yoe \div 100 + doy
    IN  era * 146097 + doe - 719468

\* the civil date of a day number
CivilFromDays(z) ==
    LET zz  == z + 719468
        era == zz \div 146097
        doe == zz - era * 146097
        yoe == (doe - doe \div 1460 + doe \div 36524 - doe \div 146096) \div 365
        doy == doe - (365 * yoe + yoe \div 4 - yoe \div 100)
        mp  == (5 * doy + 2) \div 153
        d   == doy - (153 * mp + 2) \div 5 + 1
        m   == IF mp < 10 THEN mp + 3 ELSE mp - 9
        y   == yoe + era * 400 + (IF m <= 2 THEN 1 ELSE 0)
    IN  [y |-> y, m |-> m, d |-> d]

\* MakeDay of new Date(year, monthIndex, day): monthIndex is 0-based and may overflow
MakeDay(year, monthIndex, day) ==
    DaysFromCivil(year + monthIndex \div 12, (monthIndex % 12) + 1, day)

\* new Date(year, monthIndex, day): midnight of that day in local time
LocalMidnight(year, monthIndex, day, offset) ==
    MakeDay(year, monthIndex, day) * DayTicks - offset

\* midnight of that day in UTC
UTCMidnight(year, monthIndex, day) ==
    MakeDay(year, monthIndex, day) * DayTicks

\* date.toISOString().split("T")[0]: the UTC calendar date of an instant
ISODate(t) == CivilFromDays(t \div DayTicks)

\* d.getFullYear(): the calendar year in local time
getFullYear(t, offset) == CivilFromDays((t + offset) \div DayTicks).y

-----------------------------------------------------------------------------
(* Strings *)

\* the whitespace atom of the text columns
WS == " "

\* A date string is a record of what is written: form "named" is
\* "<n1> <mon> <y>", form "slash" is "<n1>/<n2>/<y>", form "iso" is
\* "<y>-<n1>-<n2>", form "junk" is text that is no date.
DateText(form, n1, n2, y, mon) ==
    [form |-> form, n1 |-> n1, n2 |-> n2, y |-> y, mon |-> mon]

\* the whitespace atom of the Publish date column
WSDate == DateText("ws", 0, 0, 0, "")

RECURSIVE TrimStart(_, _)
TrimStart(s, ws) ==
    IF s # <<>> /\ Head(s) = ws THEN TrimStart(Tail(s), ws) ELSE s

RECURSIVE TrimEnd(_, _)
TrimEnd(s, ws) ==
    IF s # <<>> /\ s[Len(s)] = ws THEN TrimEnd(SubSeq(s, 1, Len(s) - 1), ws) ELSE s

\* String.prototype.trim on a sequence of atoms
Trim(s, ws) == TrimEnd(TrimStart(s, ws), ws)

\* the string a trimmed cell holds: "" or its one run of text
Text(s) == IF s = <<>> THEN "" ELSE s[1]

\* a cell Papa.parse left out of the row object (row["..."] is undefined)
Undefined(ws) == [defined |-> FALSE, str |-> <<ws>>]

Cell(s) == [defined |-> TRUE, str |-> s]

\* row["..."]?.trim()
OptTrim(cell, ws) == IF cell.defined THEN Trim(cell.str, ws) ELSE <<>>

\* row["..."] || ""
OrEmpty(cell) == IF cell.defined THEN cell.str ELSE <<>>

\* url.includes(part)
includes(url, part) == \E i \in 1..Len(url) : url[i] = part

\* regex.test(title): title is one of TitleTexts or ""
Test(re, title) == title \in re

-----------------------------------------------------------------------------
(* Date Normalizer *)

null == [isNull |-> TRUE, time |-> 0]

Date(t) == [isNull |-> FALSE, time |-> t]

\* the month a name stands for in new Date("<Mon> <d>, <y>"), 0 when it is no month name
MonthNumber(mon) ==
    CASE mon = "Jan" -> 1 [] mon = "Feb" -> 2 [] mon = "Mar" -> 3 [] mon = "Apr" -> 4
      [] mon = "May" -> 5 [] mon = "Jun" -> 6 [] mon = "Jul" -> 7 [] mon = "Aug" -> 8
      [] mon = "Sep" -> 9 [] mon = "Oct" -> 10 [] mon = "October" -> 10
      [] mon = "Nov" -> 11 [] mon = "Dec" -> 12
      [] OTHER -> 0

\* new Date(`${namedMonth[2]} ${namedMonth[1]}, ${namedMonth[3]}`):
\* local midnight of the named day, or Invalid Date
NamedMonthDate(s, offset) ==
    IF MonthNumber(s.mon) = 0 \/ s.n1 < 1 \/ s.n1 > 31
    THEN null
    ELSE Date(LocalMidnight(s.y, MonthNumber(s.mon) - 1, s.n1, offset))

\* a plausible slip: the slash form read as month / day / year
SlashedDateMonthFirst(s, offset) ==
    LET month == s.n1 - 1
        day   == s.n2
        year  == s.y
    IN  Date(LocalMidnight(year, month, day, offset))

\* lines 29-32: the slash form read as day / month / year
SlashedDate(s, offset) ==
    LET day   == s.n1
        month == s.n2 - 1
        year  == s.y
    IN  Date(LocalMidnight(year, month, day, offset))

\* new Date(s) of a string in neither form: "YYYY-MM-DD" is midnight UTC,
\* anything else in the universe is Invalid Date
FallbackDate(s) ==
    IF s.form = "iso" /\ s.n1 \in 1..12 /\ s.n2 \in 1..DaysInMonth(s.y, s.n1)
    THEN Date(UTCMidnight(s.y, s.n1 - 1, s.n2))
    ELSE null

parseFlexibleDate(dateStr, offset) ==
    IF Trim(dateStr, WSDate) = <<>> THEN null
    ELSE LET s == Trim(dateStr, WSDate)[1]
             namedMonth == s.form = "named"
             slashed == s.form = "slash"
         IN  IF namedMonth /\ ~NamedMonthDate(s, offset).isNull
             THEN NamedMonthDate(s, offset)
             ELSE IF slashed THEN SlashedDate(s, offset)
             ELSE FallbackDate(s)

-----------------------------------------------------------------------------
(* Regular expressions of src/lib/articles.ts over the titles of the model *)

\* BEGIN TABLES
\* the titles of the model
TitleTexts ==
    {"What is a Stablecoin? A Beginner's Guide",
     "How to Buy Crypto in 2023",
     "Transak Partners with MetaMask to Launch New Feature",
     "Ethereum Price Prediction 2024",
     "Bitcoin vs Ethereum Explained 2025",
     "Understanding DeFi Wallets",
     "Web3 Podcast Ep12",
     "Gaming Case Study",
     "Upcoming Events Guide 2027",
     "Countdown Guide for Beginners",
     "Top 5 Crypto Wallets",
     "Top 5 Crypto Wallets 2026",
     "How to Buy Crypto",
     "USDC Now Available on Transak",
     "Transak for Developers",
     "Crypto Wallet Basics",
     "Hello World",
     "Transak Raises Series A",
     "Crypto Report Q3",
     "NFT Gaming Guide 2019",
     "DeFi Explained 2024 Edition",
     "DeFi Explained 2025 Edition",
     "What is DeFi in 2026? Explained",
     "How to Buy USDC Now Available on Transak",
     "Transak Launches Price Prediction Tool 2024",
     "What is Transak One? Integration Explained",
     "Understanding Regulatory Compliance",
     "Crypto Trends 2025 vs 2024",
     "Upcoming Crypto Events 2025",
     "How DeFi Powers Web3 Gaming in 2024",
     "How to Stake: Lido Now Supports Solana",
     "What is Restaking? Lido Collaboration Explained"}

\* line 46: /\bpartner|integrat|collaborat|joins forces|teams up|powers|launches|secures|expands|raises|lists \$/i
ReL46 ==
    {"Transak Partners with MetaMask to Launch New Feature", "Transak Raises Series A", "Transak Launches Price Prediction Tool 2024", "What is Transak One? Integration Explained", "How DeFi Powers Web3 Gaming in 2024", "What is Restaking? Lido Collaboration Explained"}
\* line 47: /now (available|live|on|integrated)|is now|now supports/i
ReL47 ==
    {"USDC Now Available on Transak", "How to Buy USDC Now Available on Transak", "How to Stake: Lido Now Supports Solana"}
\* line 54: /\b20(2[0-9]|3[0-9])\b/
ReL54 ==
    {"How to Buy Crypto in 2023", "Ethereum Price Prediction 2024", "Bitcoin vs Ethereum Explained 2025", "Upcoming Events Guide 2027", "Top 5 Crypto Wallets 2026", "DeFi Explained 2024 Edition", "DeFi Explained 2025 Edition", "What is DeFi in 2026? Explained", "Transak Launches Price Prediction Tool 2024", "Crypto Trends 2025 vs 2024", "Upcoming Crypto Events 2025", "How DeFi Powers Web3 Gaming in 2024"}
\* line 55: /countdown|upcoming events|devcon|token2049|ethdenver/i
ReL55 ==
    {"Upcoming Events Guide 2027", "Countdown Guide for Beginners"}
\* line 56: /price prediction|forecast|q[1-4]\b/i
ReL56 ==
    {"Ethereum Price Prediction 2024", "Crypto Report Q3", "Transak Launches Price Prediction Tool 2024"}
\* line 63: /^what (is|are|does|makes)\b/i
ReL63 ==
    {"What is a Stablecoin? A Beginner's Guide", "What is DeFi in 2026? Explained", "What is Transak One? Integration Explained", "What is Restaking? Lido Collaboration Explained"}
\* line 64: /\bexplained\b|\bexplainer\b|\ba (beginner|simple|comprehensive|detailed|step-by-step) guide\b/i
ReL64 ==
    {"Bitcoin vs Ethereum Explained 2025", "DeFi Explained 2024 Edition", "DeFi Explained 2025 Edition", "What is DeFi in 2026? Explained", "What is Transak One? Integration Explained", "What is Restaking? Lido Collaboration Explained"}
\* line 65: /\bhow (does|do|to choose|to set up|to enable)\b/i
ReL65 ==
    {}
\* line 66: /\bvs\.?\b|\bvs\b/i
ReL66 ==
    {"Bitcoin vs Ethereum Explained 2025", "Crypto Trends 2025 vs 2024"}
\* line 67: /understanding\b|decoding\b|breaking down\b/i
ReL67 ==
    {"Understanding DeFi Wallets", "Understanding Regulatory Compliance"}
\* line 70: /\b20(2[0-9]|3[0-9])\b/
ReL70 ==
    {"How to Buy Crypto in 2023", "Ethereum Price Prediction 2024", "Bitcoin vs Ethereum Explained 2025", "Upcoming Events Guide 2027", "Top 5 Crypto Wallets 2026", "DeFi Explained 2024 Edition", "DeFi Explained 2025 Edition", "What is DeFi in 2026? Explained", "Transak Launches Price Prediction Tool 2024", "Crypto Trends 2025 vs 2024", "Upcoming Crypto Events 2025", "How DeFi Powers Web3 Gaming in 2024"}
\* line 77: /^how to\b/i
ReL77 ==
    {"How to Buy Crypto in 2023", "How to Buy Crypto", "How to Buy USDC Now Available on Transak", "How to Stake: Lido Now Supports Solana"}
\* line 87: /case study/i
ReL87 ==
    {"Gaming Case Study"}
\* line 114: /\b20(2[0-4])\b/
ReL114 ==
    {"How to Buy Crypto in 2023", "Ethereum Price Prediction 2024", "DeFi Explained 2024 Edition", "Transak Launches Price Prediction Tool 2024", "Crypto Trends 2025 vs 2024", "How DeFi Powers Web3 Gaming in 2024"}
\* line 117: /\b2025\b/
ReL117 ==
    {"Bitcoin vs Ethereum Explained 2025", "DeFi Explained 2025 Edition", "Crypto Trends 2025 vs 2024", "Upcoming Crypto Events 2025"}
\* line 128: /\b(20[2-3][0-9])\b/
ReL128 ==
    {"How to Buy Crypto in 2023", "Ethereum Price Prediction 2024", "Bitcoin vs Ethereum Explained 2025", "Upcoming Events Guide 2027", "Top 5 Crypto Wallets 2026", "DeFi Explained 2024 Edition", "DeFi Explained 2025 Edition", "What is DeFi in 2026? Explained", "Transak Launches Price Prediction Tool 2024", "Crypto Trends 2025 vs 2024", "Upcoming Crypto Events 2025", "How DeFi Powers Web3 Gaming in 2024"}
\* line 143: /countdown|upcoming/i
ReL143 ==
    {"Upcoming Events Guide 2027", "Countdown Guide for Beginners", "Upcoming Crypto Events 2025"}
\* line 216: /masters of web3|ep\d|podcast|co-?founder.*of\b.*\b(at|labs|dao|protocol)/i
ReL216 ==
    {"Web3 Podcast Ep12"}
\* line 219: /case study/i
ReL219 ==
    {"Gaming Case Study"}
\* line 222: /\bstablecoin|usdt|usdc|pyusd|rlusd|usdg|eurc|usde|tether|paypal usd|flatcoin|dark stablecoin|cbdc|genius act|mica\b/i
ReL222 ==
    {"What is a Stablecoin? A Beginner's Guide", "USDC Now Available on Transak", "How to Buy USDC Now Available on Transak"}
\* line 226: /\bnow (available|listed)|lists \$|lists (HYPE|PEPE|BONK)|is now available\b/i
ReL226 ==
    {"USDC Now Available on Transak", "How to Buy USDC Now Available on Transak"}
\* line 227: /\bavailable (for purchase|on transak|via transak)\b/i
ReL227 ==
    {"USDC Now Available on Transak", "How to Buy USDC Now Available on Transak"}
\* line 228: /\btransak lists\b/i
ReL228 ==
    {}
\* line 229: /\bnow available for purchases?\b/i
ReL229 ==
    {}
\* line 234: /\bpartner|integrat|joins forces|teams up\b/i
ReL234 ==
    {"Transak Partners with MetaMask to Launch New Feature", "What is Transak One? Integration Explained"}
\* line 235: /\b(metamask|phantom|ledger|coinbase|pancakeswap|uniswap|sushi|aave|bitpay|immutable|sequence|ronin|zerion|bloom|zengo|okto|tonkeeper|vechain|lukso|animoca|logx|opera|fireblocks|cobo|galxe|privado)\b/i
ReL235 ==
    {"Transak Partners with MetaMask to Launch New Feature"}
\* line 236: /\btransak\b/i
ReL236 ==
    {"Transak Partners with MetaMask to Launch New Feature", "USDC Now Available on Transak", "Transak for Developers", "Transak Raises Series A", "How to Buy USDC Now Available on Transak", "Transak Launches Price Prediction Tool 2024", "What is Transak One? Integration Explained"}
\* line 241: /\btransak (one|stream|nft checkout|multi-nft)\b/i
ReL241 ==
    {"What is Transak One? Integration Explained"}
\* line 242: /\bproduct update|new feature|wire transfer|apple pay|google pay|google.*sso|apple.*sso\b/i
ReL242 ==
    {"Transak Partners with MetaMask to Launch New Feature"}
\* line 243: /\breusable kyc|transak\.com got an upgrade\b/i
ReL243 ==
    {}
\* line 244: /\bintroducing transak|how to use transak\b/i
ReL244 ==
    {}
\* line 249: /\bseries.[a-z]|fundraise|strategic round|raises\b/i
ReL249 ==
    {"Transak Raises Series A"}
\* line 250: /\blicense|registration|fintrac|fca |fiu-|soc 2|iso\/iec|certified|regulatory|compliance footprint\b/i
ReL250 ==
    {"Understanding Regulatory Compliance"}
\* line 251: /\bexpands|expansion|launches.*in\b/i
ReL251 ==
    {}
\* line 252: /\bincident|maintenance|security incident|trust notice\b/i
ReL252 ==
    {}
\* line 253: /\bgrowth|milestone|2022 in review|2025\s*$|in review\b/i
ReL253 ==
    {"Bitcoin vs Ethereum Explained 2025", "Upcoming Crypto Events 2025"}
\* line 254: /\btransak (secures|becomes|expands|receives|celebrates|is proud|is pleased)\b/i
ReL254 ==
    {}
\* line 255: /\bcommitment|self-custody|navigating.*regulation|thoughts on\b/i
ReL255 ==
    {}
\* line 256: /\bjames young.*joins|advisory board\b/i
ReL256 ==
    {}
\* line 257: /\bmeet team transak\b/i
ReL257 ==
    {}
\* line 262: /^what (is|are|does|makes)\b/i
ReL262 ==
    {"What is a Stablecoin? A Beginner's Guide", "What is DeFi in 2026? Explained", "What is Transak One? Integration Explained", "What is Restaking? Lido Collaboration Explained"}
\* line 263: /^how (to|do|does|can)\b/i
ReL263 ==
    {"How to Buy Crypto in 2023", "How to Buy Crypto", "How to Buy USDC Now Available on Transak", "How to Stake: Lido Now Supports Solana"}
\* line 264: /\bexplain|guide|handbook|tutorial|beginner|101\b/i
ReL264 ==
    {"What is a Stablecoin? A Beginner's Guide", "Bitcoin vs Ethereum Explained 2025", "Upcoming Events Guide 2027", "Countdown Guide for Beginners", "NFT Gaming Guide 2019", "DeFi Explained 2024 Edition", "DeFi Explained 2025 Edition", "What is DeFi in 2026? Explained", "What is Transak One? Integration Explained", "What is Restaking? Lido Collaboration Explained"}
\* line 265: /\bvs\.?\b|\bcomparing\b|\bdifference\b/i
ReL265 ==
    {"Bitcoin vs Ethereum Explained 2025", "Crypto Trends 2025 vs 2024"}
\* line 266: /^top \d|^\d+ (best|ways|challenges|reasons|incredible|premier)\b/i
ReL266 ==
    {"Top 5 Crypto Wallets", "Top 5 Crypto Wallets 2026"}
\* line 267: /\bdecoding|understanding|breaking down|deep dive|step-by-step\b/i
ReL267 ==
    {"Understanding DeFi Wallets", "Understanding Regulatory Compliance"}
\* line 268: /\bprotect yourself|crypto journey|bitcoin halving explained|ecosystem spotlight\b/i
ReL268 ==
    {}
\* line 269: /\bevents (in|to look)|devcon.*guide|token2049\b/i
ReL269 ==
    {}
\* line 270: /\bwhy (crypto|fintechs|vcs|wallets|smart|global|stablecoin|neobanks)\b/i
ReL270 ==
    {}
\* line 271: /\bplaybook|report\b/i
ReL271 ==
    {"Crypto Report Q3"}
\* line 276: /\btransak\b/i
ReL276a ==
    {"Transak Partners with MetaMask to Launch New Feature", "USDC Now Available on Transak", "Transak for Developers", "Transak Raises Series A", "How to Buy USDC Now Available on Transak", "Transak Launches Price Prediction Tool 2024", "What is Transak One? Integration Explained"}
\* line 276: /\bwith\b|\bon\b|\bfor\b/i
ReL276b ==
    {"Transak Partners with MetaMask to Launch New Feature", "Countdown Guide for Beginners", "USDC Now Available on Transak", "Transak for Developers", "How to Buy USDC Now Available on Transak"}
\* line 278: /\bcrypto|blockchain|web3|defi|token|wallet|nft|payment\b/i
ReL278 ==
    {"How to Buy Crypto in 2023", "Understanding DeFi Wallets", "Web3 Podcast Ep12", "Top 5 Crypto Wallets", "Top 5 Crypto Wallets 2026", "How to Buy Crypto", "Crypto Wallet Basics", "Crypto Report Q3", "NFT Gaming Guide 2019", "DeFi Explained 2024 Edition", "DeFi Explained 2025 Edition", "What is DeFi in 2026? Explained", "Crypto Trends 2025 vs 2024", "Upcoming Crypto Events 2025", "How DeFi Powers Web3 Gaming in 2024"}
\* line 293: /\btransak one\b/i
ReL293 ==
    {"What is Transak One? Integration Explained"}
\* line 294: /\btransak stream\b|off.?ramp|sell crypto|cash out|crypto.to.fiat/i
ReL294 ==
    {}
\* line 295: /\bon.?ramp|buy crypto|fiat.to.crypto|purchase/i
ReL295 ==
    {"How to Buy Crypto in 2023", "How to Buy Crypto"}
\* line 296: /\bnft checkout|nft marketplace/i
ReL296 ==
    {}
\* line 299: /\bnft\b/i
ReL299 ==
    {"NFT Gaming Guide 2019"}
\* line 300: /\bgaming|game|play.to.earn|p2e|gamefi\b/i
ReL300 ==
    {"Gaming Case Study", "NFT Gaming Guide 2019", "How DeFi Powers Web3 Gaming in 2024"}
\* line 301: /\bdefi|decentralized finance\b/i
ReL301 ==
    {"Understanding DeFi Wallets", "DeFi Explained 2024 Edition", "DeFi Explained 2025 Edition", "What is DeFi in 2026? Explained", "How DeFi Powers Web3 Gaming in 2024"}
\* line 302: /\bstablecoin|usdt|usdc|pyusd|rlusd|usdg|eurc\b/i
ReL302 ==
    {"What is a Stablecoin? A Beginner's Guide", "USDC Now Available on Transak", "How to Buy USDC Now Available on Transak"}
\* line 303: /\bwallet\b/i
ReL303 ==
    {"Crypto Wallet Basics"}
\* line 304: /\bkyc|compliance|regulation|license|fca|genius act|mica|clarity act|travel rule\b/i
ReL304 ==
    {"Understanding Regulatory Compliance"}
\* line 305: /\bsecurity|scam|attack|poison|incident\b/i
ReL305 ==
    {}
\* line 306: /\blayer 2|l2|zkevm|rollup|superchain\b/i
ReL306 ==
    {}
\* line 307: /\bethereum|eth\b/i
ReL307 ==
    {"Ethereum Price Prediction 2024", "Bitcoin vs Ethereum Explained 2025"}
\* line 308: /\bbitcoin|btc\b/i
ReL308 ==
    {"Bitcoin vs Ethereum Explained 2025"}
\* line 309: /\bsolana|sol\b/i
ReL309 ==
    {"How to Stake: Lido Now Supports Solana"}
\* line 310: /\bmeme.?coin|pepe|bonk|pnut|trump|melania|moodeng\b/i
ReL310 ==
    {}
\* line 311: /\bairdrop\b/i
ReL311 ==
    {}
\* line 312: /\brwa|tokeniz|real.world.asset|treasury bill\b/i
ReL312 ==
    {}
\* line 313: /\bpayment|pay |payfi|cross.border|remittance\b/i
ReL313 ==
    {}
\* line 314: /\bstaking|restaking|yield\b/i
ReL314 ==
    {"What is Restaking? Lido Collaboration Explained"}
\* line 315: /\bneobank|fintech|embedded finance\b/i
ReL315 ==
    {}
\* line 316: /\bai agent|ai crypto\b/i
ReL316 ==
    {}
\* line 317: /\baustralia|india|hong kong|philippines|thailand|hawaii|africa|uk |u\.s\.|us |singapore\b/i
ReL317 ==
    {}
\* line 318: /\bmetamask|phantom|ledger|zengo|coinbase|trustwallet|veworld|tokenpocket\b/i
ReL318 ==
    {"Transak Partners with MetaMask to Launch New Feature"}
\* line 319: /\bhow to\b|step.by.step/i
ReL319 ==
    {"How to Buy Crypto in 2023", "How to Buy Crypto", "How to Buy USDC Now Available on Transak", "How to Stake: Lido Now Supports Solana"}
\* line 320: /\bexplain|what is|what are|101|beginner/i
ReL320 ==
    {"What is a Stablecoin? A Beginner's Guide", "Bitcoin vs Ethereum Explained 2025", "Countdown Guide for Beginners", "DeFi Explained 2024 Edition", "DeFi Explained 2025 Edition", "What is DeFi in 2026? Explained", "What is Transak One? Integration Explained", "What is Restaking? Lido Collaboration Explained"}
\* line 128: parseInt(yearMatch[1]), the first year token of a title ReL128 matches
ReL128Year ==
    ("How to Buy Crypto in 2023" :> 2023) @@
    ("Ethereum Price Prediction 2024" :> 2024) @@
    ("Bitcoin vs Ethereum Explained 2025" :> 2025) @@
    ("Upcoming Events Guide 2027" :> 2027) @@
    ("Top 5 Crypto Wallets 2026" :> 2026) @@
    ("DeFi Explained 2024 Edition" :> 2024) @@
    ("DeFi Explained 2025 Edition" :> 2025) @@
    ("What is DeFi in 2026? Explained" :> 2026) @@
    ("Transak Launches Price Prediction Tool 2024" :> 2024) @@
    ("Crypto Trends 2025 vs 2024" :> 2025) @@
    ("Upcoming Crypto Events 2025" :> 2025) @@
    ("How DeFi Powers Web3 Gaming in 2024" :> 2024)

\* String.prototype.toLowerCase over the category and tag texts of the model
toLowerCase ==
    ("Podcast" :> "podcast") @@ ("Case Studies" :> "case studies") @@ ("Stablecoins" :> "stablecoins") @@
    ("New Listings" :> "new listings") @@ ("Partnerships" :> "partnerships") @@ ("Product" :> "product") @@
    ("Announcements" :> "announcements") @@ ("Learn" :> "learn") @@ ("Transak One" :> "transak one") @@
    ("Off Ramp" :> "off ramp") @@ ("On-Ramp" :> "on-ramp") @@ ("NFT Checkout" :> "nft checkout") @@
    ("NFT" :> "nft") @@ ("Gaming" :> "gaming") @@ ("DeFi" :> "defi") @@
    ("Tokens & Standards" :> "tokens & standards") @@ ("Wallets" :> "wallets") @@ ("Compliance" :> "compliance") @@
    ("Security" :> "security") @@ ("Layer 2" :> "layer 2") @@ ("Ethereum" :> "ethereum") @@
    ("Bitcoin" :> "bitcoin") @@ ("Solana" :> "solana") @@ ("Memecoins" :> "memecoins") @@
    ("Airdrops" :> "airdrops") @@ ("RWA" :> "rwa") @@ ("Payments" :> "payments") @@
    ("Staking" :> "staking") @@ ("Adoption" :> "adoption") @@ ("AI" :> "ai") @@
    ("Expansions" :> "expansions") @@ ("Partners" :> "partners") @@ ("How-To Guides" :> "how-to guides") @@
    ("Blockchain 101" :> "blockchain 101") @@ ("Ecosystem" :> "ecosystem") @@ ("Educational" :> "educational") @@
    ("Events" :> "events") @@ ("Expansion" :> "expansion") @@ ("Explainer" :> "explainer") @@
    ("KYC" :> "kyc") @@ ("Launch" :> "launch") @@ ("NFTs" :> "nfts") @@
    ("Off-Ramp" :> "off-ramp") @@ ("Partnerships & Integrations" :> "partnerships & integrations") @@ ("Product Updates" :> "product updates") @@
    ("Reviews" :> "reviews") @@ ("User Onboarding" :> "user onboarding") @@ ("Web3" :> "web3") @@
    ("defi" :> "defi") @@ ("Wallet" :> "wallet") @@ ("Games" :> "games") @@
    ("Research" :> "research") @@ ("Layer2" :> "layer2") @@
    ("Constructor" :> "constructor")

\* c.includes("case stud") over the lower-cased category labels
IncludesCaseStud ==
    {"case studies"}

\* the UTF-16 code units of the category and tag texts of the model
CodeUnits ==
    ("Podcast" :> <<80, 111, 100, 99, 97, 115, 116>>) @@
    ("Case Studies" :> <<67, 97, 115, 101, 32, 83, 116, 117, 100, 105, 101, 115>>) @@
    ("Stablecoins" :> <<83, 116, 97, 98, 108, 101, 99, 111, 105, 110, 115>>) @@
    ("New Listings" :> <<78, 101, 119, 32, 76, 105, 115, 116, 105, 110, 103, 115>>) @@
    ("Partnerships" :> <<80, 97, 114, 116, 110, 101, 114, 115, 104, 105, 112, 115>>) @@
    ("Product" :> <<80, 114, 111, 100, 117, 99, 116>>) @@
    ("Announcements" :> <<65, 110, 110, 111, 117, 110, 99, 101, 109, 101, 110, 116, 115>>) @@
    ("Learn" :> <<76, 101, 97, 114, 110>>) @@
    ("Transak One" :> <<84, 114, 97, 110, 115, 97, 107, 32, 79, 110, 101>>) @@
    ("Off Ramp" :> <<79, 102, 102, 32, 82, 97, 109, 112>>) @@
    ("On-Ramp" :> <<79, 110, 45, 82, 97, 109, 112>>) @@
    ("NFT Checkout" :> <<78, 70, 84, 32, 67, 104, 101, 99, 107, 111, 117, 116>>) @@
    ("NFT" :> <<78, 70, 84>>) @@
    ("Gaming" :> <<71, 97, 109, 105, 110, 103>>) @@
    ("DeFi" :> <<68, 101, 70, 105>>) @@
    ("Tokens & Standards" :> <<84, 111, 107, 101, 110, 115, 32, 38, 32, 83, 116, 97, 110, 100, 97, 114, 100, 115>>) @@
    ("Wallets" :> <<87, 97, 108, 108, 101, 116, 115>>) @@
    ("Compliance" :> <<67, 111, 109, 112, 108, 105, 97, 110, 99, 101>>) @@
    ("Security" :> <<83, 101, 99, 117, 114, 105, 116, 121>>) @@
    ("Layer 2" :> <<76, 97, 121, 101, 114, 32, 50>>) @@
    ("Ethereum" :> <<69, 116, 104, 101, 114, 101, 117, 109>>) @@
    ("Bitcoin" :> <<66, 105, 116, 99, 111, 105, 110>>) @@
    ("Solana" :> <<83, 111, 108, 97, 110, 97>>) @@
    ("Memecoins" :> <<77, 101, 109, 101, 99, 111, 105, 110, 115>>) @@
    ("Airdrops" :> <<65, 105, 114, 100, 114, 111, 112, 115>>) @@
    ("RWA" :> <<82, 87, 65>>) @@
    ("Payments" :> <<80, 97, 121, 109, 101, 110, 116, 115>>) @@
    ("Staking" :> <<83, 116, 97, 107, 105, 110, 103>>) @@
    ("Adoption" :> <<65, 100, 111, 112, 116, 105, 111, 110>>) @@
    ("AI" :> <<65, 73>>) @@
    ("Expansions" :> <<69, 120, 112, 97, 110, 115, 105, 111, 110, 115>>) @@
    ("Partners" :> <<80, 97, 114, 116, 110, 101, 114, 115>>) @@
    ("How-To Guides" :> <<72, 111, 119, 45, 84, 111, 32, 71, 117, 105, 100, 101, 115>>) @@
    ("Blockchain 101" :> <<66, 108, 111, 99, 107, 99, 104, 97, 105, 110, 32, 49, 48, 49>>) @@
    ("Ecosystem" :> <<69, 99, 111, 115, 121, 115, 116, 101, 109>>) @@
    ("Educational" :> <<69, 100, 117, 99, 97, 116, 105, 111, 110, 97, 108>>) @@
    ("Events" :> <<69, 118, 101, 110, 116, 115>>) @@
    ("Expansion" :> <<69, 120, 112, 97, 110, 115, 105, 111, 110>>) @@
    ("Explainer" :> <<69, 120, 112, 108, 97, 105, 110, 101, 114>>) @@
    ("KYC" :> <<75, 89, 67>>) @@
    ("Launch" :> <<76, 97, 117, 110, 99, 104>>) @@
    ("NFTs" :> <<78, 70, 84, 115>>) @@
    ("Off-Ramp" :> <<79, 102, 102, 45, 82, 97, 109, 112>>) @@
    ("Partnerships & Integrations" :> <<80, 97, 114, 116, 110, 101, 114, 115, 104, 105, 112, 115, 32, 38, 32, 73, 110, 116, 101, 103, 114, 97, 116, 105, 111, 110, 115>>) @@
    ("Product Updates" :> <<80, 114, 111, 100, 117, 99, 116, 32, 85, 112, 100, 97, 116, 101, 115>>) @@
    ("Reviews" :> <<82, 101, 118, 105, 101, 119, 115>>) @@
    ("User Onboarding" :> <<85, 115, 101, 114, 32, 79, 110, 98, 111, 97, 114, 100, 105, 110, 103>>) @@
    ("Web3" :> <<87, 101, 98, 51>>) @@
    ("defi" :> <<100, 101, 102, 105>>) @@
    ("Wallet" :> <<87, 97, 108, 108, 101, 116>>) @@
    ("Games" :> <<71, 97, 109, 101, 115>>) @@
    ("Research" :> <<82, 101, 115, 101, 97, 114, 99, 104>>) @@
    ("Layer2" :> <<76, 97, 121, 101, 114, 50>>) @@
    ("function Object() { [native code] }" :> <<102, 117, 110, 99, 116, 105, 111, 110, 32, 79, 98, 106, 101, 99, 116, 40, 41, 32, 123, 32, 91, 110, 97, 116, 105, 118, 101, 32, 99, 111, 100, 101, 93, 32, 125>>)
\* END TABLES

-----------------------------------------------------------------------------
(* Title Classifier *)

\* the labels categorizeArticle can push
CategoryLabels ==
    {"Podcast", "Case Studies", "Stablecoins", "New Listings", "Partnerships",
     "Product", "Announcements", "Learn"}

\* [...new Set(xs)]: the first occurrence of every element, in order
RECURSIVE Dedup(_)
Dedup(xs) ==
    IF xs = <<>> THEN <<>>
    ELSE LET init == Dedup(SubSeq(xs, 1, Len(xs) - 1))
             last == xs[Len(xs)]
         IN  IF \E i \in 1..Len(init) : init[i] = last THEN init ELSE Append(init, last)

\* a plausible slip: unshift for push, the label goes to the front
PushIfFront(xs, cond, label) == IF cond THEN <<label>> \o xs ELSE xs

\* if (cond) xs.push(label)
PushIf(xs, cond, label) == IF cond THEN Append(xs, label) ELSE xs

categorizeArticle(title) ==
    LET c1 == PushIf(<<>>, Test(ReL216, title), "Podcast")
        c2 == PushIf(c1, Test(ReL219, title), "Case Studies")
        c3 == PushIf(c2, Test(ReL222, title), "Stablecoins")
        c4 == PushIf(c3, Test(ReL226, title) \/ Test(ReL227, title)
                          \/ Test(ReL228, title) \/ Test(ReL229, title), "New Listings")
        c5 == PushIf(c4, Test(ReL234, title)
                          \/ (Test(ReL235, title) /\ Test(ReL236, title)), "Partnerships")
        c6 == PushIf(c5, Test(ReL241, title) \/ Test(ReL242, title)
                          \/ Test(ReL243, title) \/ Test(ReL244, title), "Product")
        c7 == PushIf(c6, Test(ReL249, title) \/ Test(ReL250, title) \/ Test(ReL251, title)
                          \/ Test(ReL252, title) \/ Test(ReL253, title) \/ Test(ReL254, title)
                          \/ Test(ReL255, title) \/ Test(ReL256, title) \/ Test(ReL257, title),
                     "Announcements")
        c8 == PushIf(c7, Test(ReL262, title) \/ Test(ReL263, title) \/ Test(ReL264, title)
                          \/ Test(ReL265, title) \/ Test(ReL266, title) \/ Test(ReL267, title)
                          \/ Test(ReL268, title) \/ Test(ReL269, title) \/ Test(ReL270, title)
                          \/ Test(ReL271, title), "Learn")
        cats == IF Len(c8) = 0
                THEN IF Test(ReL276a, title) /\ Test(ReL276b, title) THEN <<"Partnerships">>
                     ELSE IF Test(ReL278, title) THEN <<"Learn">>
                     ELSE <<"Announcements">>
                ELSE c8
    IN  Dedup(cats)

inferTags(title) ==
    LET t1  == PushIf(<<>>, Test(ReL293, title), "Transak One")
        t2  == PushIf(t1, Test(ReL294, title), "Off Ramp")
        t3  == PushIf(t2, Test(ReL295, title), "On-Ramp")
        t4  == PushIf(t3, Test(ReL296, title), "NFT Checkout")
        t5  == PushIf(t4, Test(ReL299, title), "NFT")
        t6  == PushIf(t5, Test(ReL300, title), "Gaming")
        t7  == PushIf(t6, Test(ReL301, title), "DeFi")
        t8  == PushIf(t7, Test(ReL302, title), "Tokens & Standards")
        t9  == PushIf(t8, Test(ReL303, title), "Wallets")
        t10 == PushIf(t9, Test(ReL304, title), "Compliance")
        t11 == PushIf(t10, Test(ReL305, title), "Security")
        t12 == PushIf(t11, Test(ReL306, title), "Layer 2")
        t13 == PushIf(t12, Test(ReL307, title), "Ethereum")
        t14 == PushIf(t13, Test(ReL308, title), "Bitcoin")
        t15 == PushIf(t14, Test(ReL309, title), "Solana")
        t16 == PushIf(t15, Test(ReL310, title), "Memecoins")
        t17 == PushIf(t16, Test(ReL311, title), "Airdrops")
        t18 == PushIf(t17, Test(ReL312, title), "RWA")
        t19 == PushIf(t18, Test(ReL313, title), "Payments")
        t20 == PushIf(t19, Test(ReL314, title), "Staking")
        t21 == PushIf(t20, Test(ReL315, title), "Adoption")
        t22 == PushIf(t21, Test(ReL316, title), "AI")
        t23 == PushIf(t22, Test(ReL317, title), "Expansions")
        t24 == PushIf(t23, Test(ReL318, title), "Partners")
        t25 == PushIf(t24, Test(ReL319, title), "How-To Guides")
        t26 == PushIf(t25, Test(ReL320, title), "Blockchain 101")
    IN  Dedup(t26)

\* val.split(","): the runs of atoms between the commas
RECURSIVE Split(_, _)
Split(val, piece) ==
    IF val = <<>> THEN <<piece>>
    ELSE IF Head(val) = "," THEN <<piece>> \o Split(Tail(val), <<>>)
    ELSE Split(Tail(val), Append(piece, Head(val)))

\* pieces.map((s) => s.trim()).filter(Boolean)
RECURSIVE TrimAndFilter(_)
TrimAndFilter(pieces) ==
    IF pieces = <<>> THEN <<>>
    ELSE LET s == Trim(Head(pieces), WS)
         IN  (IF s = <<>> THEN <<>> ELSE <<Text(s)>>) \o TrimAndFilter(Tail(pieces))

\* a plausible slip: the value is trimmed but never split on its commas
splitAndCleanWhole(val) ==
    IF val = <<>> \/ Trim(val, WS) = <<>> THEN <<>>
    ELSE <<Text(Trim(val, WS))>>

splitAndClean(val) ==
    IF val = <<>> \/ Trim(val, WS) = <<>> THEN <<>>
    ELSE TrimAndFilter(Split(val, <<>>))

\* lines 165-202
TAG_NORMALIZE ==
    ("layer2" :> "Layer 2") @@ ("layer 2" :> "Layer 2") @@
    ("tokens and standards" :> "Tokens & Standards") @@
    ("tokens & standards" :> "Tokens & Standards") @@
    ("tokens and standard" :> "Tokens & Standards") @@
    ("explainers" :> "Explainer") @@ ("explainer" :> "Explainer") @@
    ("partnerships and integrations" :> "Partnerships & Integrations") @@
    ("partnerships & integrations" :> "Partnerships & Integrations") @@
    ("wallets" :> "Wallets") @@ ("wallet" :> "Wallets") @@
    ("how-to guides" :> "How-To Guides") @@
    ("on-ramp" :> "On-Ramp") @@ ("on-Ramp" :> "On-Ramp") @@ ("off-ramp" :> "Off-Ramp") @@
    ("product updates web3" :> "Product Updates") @@ ("product updates" :> "Product Updates") @@
    ("simplifying user onboarding" :> "User Onboarding") @@
    ("educational" :> "Educational") @@ ("gaming" :> "Gaming") @@ ("games" :> "Gaming") @@
    ("nfts" :> "NFTs") @@ ("nft checkout" :> "NFT Checkout") @@
    ("blockchain 101" :> "Blockchain 101") @@ ("defi" :> "DeFi") @@ ("web3" :> "Web3") @@
    ("security" :> "Security") @@ ("kyc" :> "KYC") @@ ("launch" :> "Launch") @@
    ("expansion" :> "Expansion") @@ ("events" :> "Events") @@ ("reviews" :> "Reviews") @@
    ("announcements" :> "Announcements") @@ ("ecosystem" :> "Ecosystem") @@
    ("transak one" :> "Transak One")

\* TAG_NORMALIZE is an object literal: a key it does not have is looked up in
\* Object.prototype.  The keys of Object.prototype that are lower case, with
\* the text String() gives for the value: the function Object, and
\* Object.prototype itself.
ObjectPrototype ==
    ("constructor" :> "function Object() { [native code] }") @@
    ("__proto__" :> "[object Object]")

\* TAG_NORMALIZE[key] || t
normalizeTag(t) ==
    LET key == toLowerCase[t]
    IN  IF key \in DOMAIN TAG_NORMALIZE THEN TAG_NORMALIZE[key]
        ELSE IF key \in DOMAIN ObjectPrototype THEN ObjectPrototype[key]
        ELSE t

\* a plausible slip: the normalized list is returned without new Set
normalizeTagsKeepAll(tags) ==
    [i \in 1..Len(tags) |-> normalizeTag(tags[i])]

normalizeTags(tags) ==
    LET normalized == [i \in 1..Len(tags) |-> normalizeTag(tags[i])]
    IN  Dedup(normalized)

\* categories.map((c) => c.toLowerCase())
LowerAll(categories) == [i \in 1..Len(categories) |-> toLowerCase[categories[i]]]

\* cats.some((c) => c === x1 || c === x2 ...)
SomeIn(cats, xs) == \E i \in 1..Len(cats) : cats[i] \in xs

\* a plausible slip: the year test of line 70 is inverted, an explainer without
\* a year is downgraded
detectContentTypeDowngradeInverted(title, categories) ==
    LET cats == LowerAll(categories)
    IN  IF \/ SomeIn(cats, {"announcements", "partnerships", "new listings", "product",
                            "case studies"})
           \/ Test(ReL46, title)
           \/ Test(ReL47, title)
        THEN "news"
        ELSE IF Test(ReL54, title) \/ Test(ReL55, title) \/ Test(ReL56, title)
        THEN "time-sensitive"
        ELSE IF \/ Test(ReL63, title) \/ Test(ReL64, title) \/ Test(ReL65, title)
                \/ Test(ReL66, title) \/ Test(ReL67, title)
        THEN (IF Test(ReL70, title) THEN "evergreen" ELSE "semi-evergreen")
        ELSE IF Test(ReL77, title) THEN "semi-evergreen"
        ELSE IF SomeIn(cats, {"podcast"}) THEN "evergreen"
        ELSE IF Test(ReL87, title) \/ SomeIn(cats, IncludesCaseStud) THEN "semi-evergreen"
        ELSE "semi-evergreen"

\* a plausible slip: the year, event and forecast rule of lines 54-56 is tested
\* before the news rule of lines 45-47
detectContentTypeYearFirst(title, categories) ==
    LET cats == LowerAll(categories)
    IN  IF Test(ReL54, title) \/ Test(ReL55, title) \/ Test(ReL56, title)
        THEN "time-sensitive"
        ELSE IF \/ SomeIn(cats, {"announcements", "partnerships", "new listings", "product",
                                 "case studies"})
                \/ Test(ReL46, title)
                \/ Test(ReL47, title)
        THEN "news"
        ELSE IF \/ Test(ReL63, title) \/ Test(ReL64, title) \/ Test(ReL65, title)
                \/ Test(ReL66, title) \/ Test(ReL67, title)
        THEN (IF Test(ReL70, title) THEN "semi-evergreen" ELSE "evergreen")
        ELSE IF Test(ReL77, title) THEN "semi-evergreen"
        ELSE IF SomeIn(cats, {"podcast"}) THEN "evergreen"
        ELSE IF Test(ReL87, title) \/ SomeIn(cats, IncludesCaseStud) THEN "semi-evergreen"
        ELSE "semi-evergreen"

\* a plausible slip: the year test of line 54 is left out of the time-sensitive
\* rule, a year is only seen by the downgrade of line 70
detectContentTypeNoYearRule(title, categories) ==
    LET cats == LowerAll(categories)
    IN  IF \/ SomeIn(cats, {"announcements", "partnerships", "new listings", "product",
                            "case studies"})
           \/ Test(ReL46, title)
           \/ Test(ReL47, title)
        THEN "news"
        ELSE IF Test(ReL55, title) \/ Test(ReL56, title)
        THEN "time-sensitive"
        ELSE IF \/ Test(ReL63, title) \/ Test(ReL64, title) \/ Test(ReL65, title)
                \/ Test(ReL66, title) \/ Test(ReL67, title)
        THEN (IF Test(ReL70, title) THEN "semi-evergreen" ELSE "evergreen")
        ELSE IF Test(ReL77, title) THEN "semi-evergreen"
        ELSE IF SomeIn(cats, {"podcast"}) THEN "evergreen"
        ELSE IF Test(ReL87, title) \/ SomeIn(cats, IncludesCaseStud) THEN "semi-evergreen"
        ELSE "semi-evergreen"

detectContentType(title, categories) ==
    LET cats == LowerAll(categories)
    IN  IF \/ SomeIn(cats, {"announcements", "partnerships", "new listings", "product",
                            "case studies"})
           \/ Test(ReL46, title)
           \/ Test(ReL47, title)
        THEN "news"
        ELSE IF Test(ReL54, title) \/ Test(ReL55, title) \/ Test(ReL56, title)
        THEN "time-sensitive"
        ELSE IF \/ Test(ReL63, title) \/ Test(ReL64, title) \/ Test(ReL65, title)
                \/ Test(ReL66, title) \/ Test(ReL67, title)
        THEN (IF Test(ReL70, title) THEN "semi-evergreen" ELSE "evergreen")
        ELSE IF Test(ReL77, title) THEN "semi-evergreen"
        ELSE IF SomeIn(cats, {"podcast"}) THEN "evergreen"
        ELSE IF Test(ReL87, title) \/ SomeIn(cats, IncludesCaseStud) THEN "semi-evergreen"
        ELSE "semi-evergreen"

-----------------------------------------------------------------------------
(* Freshness Evaluator *)

Verdict(freshness, reasoning) == [freshness |-> freshness, reasoning |-> reasoning]

\* A reasoning is the sequence of the pieces of its template; the dash of the
\* source texts is written "--".

\* a plausible slip: the results of the second and third tier are exchanged
evergreenVerdictTiersExchanged(ageMonths) ==
    IF ageMonths < 24
    THEN Verdict("fresh", <<"Evergreen explainer -- concepts don't expire quickly">>)
    ELSE IF ageMonths < 36
    THEN Verdict("stale", <<"Evergreen topic but quite old -- review for accuracy and outdated references">>)
    ELSE IF ageMonths < 48
    THEN Verdict("aging", <<"Evergreen but aging -- may benefit from refreshed examples or links">>)
    ELSE Verdict("needs-update", <<"Evergreen topic but very old -- likely has outdated info, screenshots, or broken links">>)

\* a plausible slip: <= in place of <, a boundary age falls in the milder tier
evergreenVerdictInclusive(ageMonths) ==
    IF ageMonths <= 24
    THEN Verdict("fresh", <<"Evergreen explainer -- concepts don't expire quickly">>)
    ELSE IF ageMonths <= 36
    THEN Verdict("aging", <<"Evergreen but aging -- may benefit from refreshed examples or links">>)
    ELSE IF ageMonths <= 48
    THEN Verdict("stale", <<"Evergreen topic but quite old -- review for accuracy and outdated references">>)
    ELSE Verdict("needs-update", <<"Evergreen topic but very old -- likely has outdated info, screenshots, or broken links">>)

\* case "evergreen", lines 103-110
evergreenVerdict(ageMonths) ==
    IF ageMonths < 24
    THEN Verdict("fresh", <<"Evergreen explainer -- concepts don't expire quickly">>)
    ELSE IF ageMonths < 36
    THEN Verdict("aging", <<"Evergreen but aging -- may benefit from refreshed examples or links">>)
    ELSE IF ageMonths < 48
    THEN Verdict("stale", <<"Evergreen topic but quite old -- review for accuracy and outdated references">>)
    ELSE Verdict("needs-update", <<"Evergreen topic but very old -- likely has outdated info, screenshots, or broken links">>)

\* a plausible slip: the 2025 rule applies from 12 months, not above 12
semiEvergreenVerdictFromTwelve(title, ageMonths) ==
    IF Test(ReL114, title)
    THEN Verdict("needs-update", <<"Title references an older year -- reads as outdated to visitors">>)
    ELSE IF Test(ReL117, title) /\ ageMonths >= 12
    THEN Verdict("stale", <<"Title references 2025 -- will soon read as outdated">>)
    ELSE IF ageMonths < 12
    THEN Verdict("fresh", <<"Recent guide -- likely still accurate">>)
    ELSE IF ageMonths < 18
    THEN Verdict("aging", <<"Guide may have outdated UI screenshots or steps">>)
    ELSE IF ageMonths < 24
    THEN Verdict("stale", <<"Product UIs and processes likely changed since publication">>)
    ELSE Verdict("needs-update", <<"Old guide -- high chance of outdated steps, UI changes, or broken links">>)

\* case "semi-evergreen", lines 112-124
semiEvergreenVerdict(title, ageMonths) ==
    IF Test(ReL114, title)
    THEN Verdict("needs-update", <<"Title references an older year -- reads as outdated to visitors">>)
    ELSE IF Test(ReL117, title) /\ ageMonths > 12
    THEN Verdict("stale", <<"Title references 2025 -- will soon read as outdated">>)
    ELSE IF ageMonths < 12
    THEN Verdict("fresh", <<"Recent guide -- likely still accurate">>)
    ELSE IF ageMonths < 18
    THEN Verdict("aging", <<"Guide may have outdated UI screenshots or steps">>)
    ELSE IF ageMonths < 24
    THEN Verdict("stale", <<"Product UIs and processes likely changed since publication">>)
    ELSE Verdict("needs-update", <<"Old guide -- high chance of outdated steps, UI changes, or broken links">>)

\* a plausible slip: the event rule applies from 3 months, not above 3
timeSensitiveByAgeFromThree(title, ageMonths) ==
    IF Test(ReL143, title) /\ ageMonths >= 3
    THEN Verdict("needs-update", <<"Event/countdown content -- the event has passed">>)
    ELSE IF ageMonths < 6
    THEN Verdict("fresh", <<"Recent time-sensitive content">>)
    ELSE IF ageMonths < 12
    THEN Verdict("aging", <<"Time-sensitive content aging -- verify relevance">>)
    ELSE Verdict("needs-update", <<"Time-sensitive content past its shelf life">>)

\* lines 142-148: the verdict of a time-sensitive title by age alone
timeSensitiveByAge(title, ageMonths) ==
    IF Test(ReL143, title) /\ ageMonths > 3
    THEN Verdict("needs-update", <<"Event/countdown content -- the event has passed">>)
    ELSE IF ageMonths < 6
    THEN Verdict("fresh", <<"Recent time-sensitive content">>)
    ELSE IF ageMonths < 12
    THEN Verdict("aging", <<"Time-sensitive content aging -- verify relevance">>)
    ELSE Verdict("needs-update", <<"Time-sensitive content past its shelf life">>)

\* a plausible slip: the year comparison runs although the title has no year
\* token, on the year 0 a failed match would give
timeSensitiveVerdictUnguarded(title, ageMonths, currentYear) ==
    LET year == IF Test(ReL128, title) THEN ReL128Year[title] ELSE 0
    IN  IF year < currentYear - 1
        THEN Verdict("needs-update",
                     <<"References ", year, " -- clearly outdated, needs a ", currentYear, " refresh or archival">>)
        ELSE IF year < currentYear
        THEN Verdict("stale",
                     <<"References ", year, " -- becoming outdated, consider updating for ", currentYear>>)
        ELSE IF year = currentYear
        THEN Verdict("fresh", <<"Current year (", year, ") content -- still relevant">>)
        ELSE timeSensitiveByAge(title, ageMonths)

\* case "time-sensitive", lines 126-149; currentYear is what
\* new Date().getFullYear() returns at the moment of the call (line 131)
timeSensitiveVerdict(title, ageMonths, currentYear) ==
    LET yearMatch == Test(ReL128, title)
        year == IF yearMatch THEN ReL128Year[title] ELSE 0
    IN  IF yearMatch /\ year < currentYear - 1
        THEN Verdict("needs-update",
                     <<"References ", year, " -- clearly outdated, needs a ", currentYear, " refresh or archival">>)
        ELSE IF yearMatch /\ year < currentYear
        THEN Verdict("stale",
                     <<"References ", year, " -- becoming outdated, consider updating for ", currentYear>>)
        ELSE IF yearMatch /\ year = currentYear
        THEN Verdict("fresh", <<"Current year (", year, ") content -- still relevant">>)
        ELSE timeSensitiveByAge(title, ageMonths)

\* a plausible slip: news a year old or more is rated like other old content
newsVerdictDegrading(ageMonths) ==
    IF ageMonths < 6 THEN Verdict("fresh", <<"Recent news">>)
    ELSE IF ageMonths < 12
    THEN Verdict("fresh", <<"News -- doesn't need updating (historical record)">>)
    ELSE Verdict("aging", <<"News/press release -- historical record, no update needed">>)

\* case "news", lines 151-156
newsVerdict(ageMonths) ==
    IF ageMonths < 6 THEN Verdict("fresh", <<"Recent news">>)
    ELSE IF ageMonths < 12
    THEN Verdict("fresh", <<"News -- doesn't need updating (historical record)">>)
    ELSE Verdict("fresh", <<"News/press release -- historical record, no update needed">>)

\* the switch of lines 102-157
assessFreshness(title, ageMonths, contentType, currentYear) ==
    CASE contentType = "evergreen" -> evergreenVerdict(ageMonths)
      [] contentType = "semi-evergreen" -> semiEvergreenVerdict(title, ageMonths)
      [] contentType = "time-sensitive" -> timeSensitiveVerdict(title, ageMonths, currentYear)
      [] contentType = "news" -> newsVerdict(ageMonths)

-----------------------------------------------------------------------------
(* Article Pipeline *)

\* a plausible slip: Math.round in place of Math.floor
AgeMonthsRounded(nowT, dateT) ==
    LET diffMs == nowT - dateT
    IN  Max(0, (2 * diffMs + MonthTicks) \div (2 * MonthTicks))

\* Math.max(0, Math.floor(diffMs / (1000 * 60 * 60 * 24 * 30.44)))
AgeMonths(nowT, dateT) ==
    LET diffMs == nowT - dateT
    IN  Max(0, diffMs \div MonthTicks)

\* the columns loadArticles reads
Columns == {"Post title", "Post URL", "Publish date", "Categories", "Tags"}

\* the whitespace atom of a column
WSOf(col) == IF col = "Publish date" THEN WSDate ELSE WS

\* Papa.parse(csvContent, {header: true, skipEmptyLines: true}).data: one object
\* per data line, keyed by the fields of the header line
PapaParse(file) ==
    [i \in 1..Len(file.rows) |->
        [col \in Columns |->
            IF col \in file.header THEN file.rows[i][col] ELSE Undefined(WSOf(col))]]

\* a plausible slip: only "/blog/" counts as a blog path
SurvivesBlogOnly(row, offset) ==
    LET title   == Text(OptTrim(row["Post title"], WS))
        url     == OptTrim(row["Post URL"], WS)
        dateStr == OptTrim(row["Publish date"], WSDate)
    IN  /\ ~(title = "" \/ url = <<>>)
        /\ includes(url, "/blog/")
        /\ ~parseFlexibleDate(dateStr, offset).isNull

\* lines 334-340: the row survives the filters
Survives(row, offset) ==
    LET title   == Text(OptTrim(row["Post title"], WS))
        url     == OptTrim(row["Post URL"], WS)
        dateStr == OptTrim(row["Publish date"], WSDate)
    IN  /\ ~(title = "" \/ url = <<>>)
        /\ ~(~includes(url, "/blog/") /\ ~includes(url, "/blog-old/"))
        /\ ~parseFlexibleDate(dateStr, offset).isNull

\* lines 342-362: the record pushed for a surviving row
MakeArticle(row, index, nowT, offset, currentYear) ==
    LET title       == Text(OptTrim(row["Post title"], WS))
        url         == OptTrim(row["Post URL"], WS)
        dateStr     == OptTrim(row["Publish date"], WSDate)
        date        == parseFlexibleDate(dateStr, offset)
        ageMonths   == AgeMonths(nowT, date.time)
        rawTags     == splitAndClean(OrEmpty(row["Tags"]))
        categories  == categorizeArticle(title)
        tags        == normalizeTags(IF Len(rawTags) > 0 THEN rawTags ELSE inferTags(title))
        contentType == detectContentType(title, categories)
        verdict     == assessFreshness(title, ageMonths, contentType, currentYear)
    IN  [id |-> index,
         title |-> title,
         url |-> url,
         publishDate |-> ISODate(date.time),
         publishTimestamp |-> date.time,
         categories |-> categories,
         tags |-> tags,
         ageMonths |-> ageMonths,
         freshness |-> verdict.freshness,
         reasoning |-> verdict.reasoning,
         contentType |-> contentType]

\* articles.sort((a, b) => b.publishTimestamp - a.publishTimestamp): stable
RECURSIVE InsertSorted(_, _)
InsertSorted(sorted, a) ==
    IF sorted = <<>> THEN <<a>>
    ELSE IF a.publishTimestamp - sorted[Len(sorted)].publishTimestamp <= 0
         THEN Append(sorted, a)
         ELSE Append(InsertSorted(SubSeq(sorted, 1, Len(sorted) - 1), a), sorted[Len(sorted)])

\* a plausible slip: the comparator a.publishTimestamp - b.publishTimestamp
RECURSIVE InsertSortedAsc(_, _)
InsertSortedAsc(sorted, a) ==
    IF sorted = <<>> THEN <<a>>
    ELSE IF sorted[Len(sorted)].publishTimestamp - a.publishTimestamp <= 0
         THEN Append(sorted, a)
         ELSE Append(InsertSortedAsc(SubSeq(sorted, 1, Len(sorted) - 1), a), sorted[Len(sorted)])

RECURSIVE SortByTimestampAsc(_)
SortByTimestampAsc(as) ==
    IF as = <<>> THEN <<>>
    ELSE InsertSortedAsc(SortByTimestampAsc(SubSeq(as, 1, Len(as) - 1)), as[Len(as)])

RECURSIVE SortByTimestampDesc(_)
SortByTimestampDesc(as) ==
    IF as = <<>> THEN <<>>
    ELSE InsertSorted(SortByTimestampDesc(SubSeq(as, 1, Len(as) - 1)), as[Len(as)])

-----------------------------------------------------------------------------
(* Derived vocabularies, lines 368-378 *)

\* x < y on two strings: the first differing code unit decides, a proper prefix
\* comes first
RECURSIVE UnitsLess(_, _)
UnitsLess(x, y) ==
    IF y = <<>> THEN FALSE
    ELSE IF x = <<>> THEN TRUE
    ELSE IF Head(x) # Head(y) THEN Head(x) < Head(y)
    ELSE UnitsLess(Tail(x), Tail(y))

\* the comparison of Array.prototype.sort() without a comparator
StringLess(s, t) == UnitsLess(CodeUnits[s], CodeUnits[t])

RECURSIVE InsertString(_, _)
InsertString(sorted, s) ==
    IF sorted = <<>> THEN <<s>>
    ELSE IF ~StringLess(s, sorted[Len(sorted)])
         THEN Append(sorted, s)
         ELSE Append(InsertString(SubSeq(sorted, 1, Len(sorted) - 1), s), sorted[Len(sorted)])

\* xs.sort()
RECURSIVE SortStrings(_)
SortStrings(xs) ==
    IF xs = <<>> THEN <<>>
    ELSE InsertString(SortStrings(SubSeq(xs, 1, Len(xs) - 1)), xs[Len(xs)])

\* as.forEach((a) => a[field].forEach((x) => set.add(x))): the labels in the
\* order they are added
RECURSIVE AllLabels(_, _)
AllLabels(as, field) ==
    IF as = <<>> THEN <<>>
    ELSE AllLabels(SubSeq(as, 1, Len(as) - 1), field) \o as[Len(as)][field]

getAllCategories(as) == SortStrings(Dedup(AllLabels(as, "categories")))

\* a plausible slip: Array.from(set) is returned without sort()
getAllTagsUnsorted(as) == Dedup(AllLabels(as, "tags"))

getAllTags(as) == SortStrings(Dedup(AllLabels(as, "tags")))

-----------------------------------------------------------------------------
(* Source files of the model *)

Row(title, url, date, categories, tags) ==
    ("Post title" :> title) @@ ("Post URL" :> url) @@ ("Publish date" :> date)
        @@ ("Categories" :> categories) @@ ("Tags" :> tags)

File(header, rows) == [readable |-> TRUE, header |-> header, rows |-> rows]

\* a file readFileSync cannot read
UnreadableFile == [readable |-> FALSE, header |-> {}, rows |-> <<>>]

\* the columns a row cannot do without
RequiredColumns == {"Post title", "Post URL", "Publish date"}

Malformed(file) == ~file.readable \/ ~(RequiredColumns \subseteq file.header)

BlogUrl == Cell(<<"https://transak.com", "/blog/", "post">>)

NoCell == Undefined(WS)

Named(n1, mon, y) == Cell(<<DateText("named", n1, 0, y, mon)>>)
Slash(n1, n2, y) == Cell(<<DateText("slash", n1, n2, y, "")>>)
Iso(y, n1, n2) == Cell(<<DateText("iso", n1, n2, y, "")>>)

\* rows of the batch files: every way a row can be dropped, both date forms of
\* one day, explicit and absent Categories and Tags, a date in the future
BatchRows ==
    {Row(Cell(<<"What is a Stablecoin? A Beginner's Guide">>), BlogUrl,
         Named(17, "Oct", 2023), NoCell, NoCell),
     Row(Cell(<<"How to Buy Crypto">>), NoCell,
         Named(5, "Jan", 2025), NoCell, NoCell),
     Row(Cell(<<"Hello World">>), Cell(<<"https://transak.com", "/press/", "post">>),
         Iso(2025, 3, 1), NoCell, NoCell),
     Row(Cell(<<WS>>), BlogUrl,
         Iso(2025, 3, 1), NoCell, NoCell),
     Row(Cell(<<"Crypto Wallet Basics">>), BlogUrl,
         Cell(<<DateText("junk", 0, 0, 0, "")>>), NoCell, NoCell),
     Row(Cell(<<WS, "Understanding DeFi Wallets", WS>>),
         Cell(<<WS, "https://transak.com", "/blog/", "post", WS>>),
         Cell(<<WSDate, DateText("slash", 17, 10, 2023, ""), WSDate>>),
         Cell(<<>>),
         Cell(<<"DeFi", ",", WS, "defi", WS, ",", "Wallet", ",", "Wallets", ",">>)),
     Row(Cell(<<"Transak Partners with MetaMask to Launch New Feature">>),
         Cell(<<"https://transak.com", "/blog-old/", "post">>),
         Iso(2025, 6, 1), Cell(<<"Research", ",", WS, "Research">>), Cell(<<WS, ",", WS>>)),
     Row(Cell(<<"Top 5 Crypto Wallets 2026">>), BlogUrl,
         Iso(2026, 6, 1), Cell(<<"Learning Hub">>), Cell(<<"Games", ",", "Gaming">>))}

RECURSIVE SeqsUpTo(_, _)
\* the sequences over S of length at most n
SeqsUpTo(S, n) ==
    IF n = 0 THEN {<<>>}
    ELSE LET shorter == SeqsUpTo(S, n - 1)
         IN  shorter \cup {Append(s, x) : s \in {t \in shorter : Len(t) = n - 1}, x \in S}

BatchFiles == {File(Columns, rows) : rows \in SeqsUpTo(BatchRows, MaxRows)}

\* publish dates of every age band, seen from ClockStart
AgeDates ==
    {Iso(2025, 12, 1), Iso(2025, 8, 20), Iso(2025, 4, 1), Iso(2025, 2, 20),
     Iso(2024, 10, 20), Iso(2024, 10, 1), Iso(2024, 4, 1), Iso(2023, 6, 20),
     Iso(2023, 6, 1), Iso(2022, 6, 1), Iso(2021, 6, 1)}

\* one row: every title at every age
AgedFiles ==
    {File(Columns, <<Row(Cell(<<t>>), BlogUrl, d, NoCell, NoCell)>>) :
        t \in TitleTexts, d \in AgeDates}

CategoryCells ==
    {NoCell, Cell(<<>>), Cell(<<WS, ",", WS>>), Cell(<<"Research">>),
     Cell(<<"Research", ",", WS, "Learning Hub">>)}

TagCells ==
    {NoCell, Cell(<<>>), Cell(<<",", WS, ",">>), Cell(<<"Research">>),
     Cell(<<"DeFi", ",", "defi">>), Cell(<<"Wallet", ",", WS, "Wallets", WS, ",", "Layer2">>)}

\* one row: every title with every Categories and Tags cell
ColumnFiles ==
    {File(Columns, <<Row(Cell(<<t>>), BlogUrl, Iso(2025, 4, 1), c, g)>>) :
        t \in TitleTexts, c \in CategoryCells, g \in TagCells}

NamedDates ==
    {Named(n1, mon, y) : n1 \in {1, 17, 29}, mon \in {"Jan", "Feb", "Oct", "Dec"},
                         y \in {2023, 2024}}
        \ {Named(29, "Feb", 2023)}

SlashDates ==
    {Slash(n1, n2, y) : n1 \in {1, 17, 29}, n2 \in {1, 2, 10, 12}, y \in {2023, 2024}}
        \cup {Slash(17, 13, 2023), Slash(10, 17, 2023), Slash(0, 1, 2024)}

\* two rows: a named-month date and a slash date
DateFiles ==
    {File(Columns, <<Row(Cell(<<"Hello World">>), BlogUrl, d1, NoCell, NoCell),
                     Row(Cell(<<"Crypto Wallet Basics">>), BlogUrl, d2, NoCell, NoCell)>>) :
        d1 \in NamedDates \cup {Named(17, "Foo", 2023)}, d2 \in SlashDates}

TwoRows ==
    <<Row(Cell(<<"How to Buy Crypto">>), BlogUrl, Iso(2025, 4, 1), NoCell, NoCell),
      Row(Cell(<<"Hello World">>), BlogUrl, Named(17, "Oct", 2023), NoCell, NoCell)>>

\* four rows with news phrasing: alone at age 30 months, with a year token, with
\* a "how to" prefix, with explainer phrasing
PrecedenceFile ==
    File(Columns,
         <<Row(Cell(<<"Transak Partners with MetaMask to Launch New Feature">>), BlogUrl,
               Iso(2023, 6, 20), NoCell, NoCell),
           Row(Cell(<<"How DeFi Powers Web3 Gaming in 2024">>), BlogUrl,
               Iso(2024, 4, 1), NoCell, NoCell),
           Row(Cell(<<"How to Stake: Lido Now Supports Solana">>), BlogUrl,
               Iso(2022, 6, 1), NoCell, NoCell),
           Row(Cell(<<"What is Restaking? Lido Collaboration Explained">>), BlogUrl,
               Iso(2021, 6, 1), NoCell, NoCell)>>)

\* three rows whose tags are shared and are not added in sorted order
VocabularyFile ==
    File(Columns,
         <<Row(Cell(<<"Understanding DeFi Wallets">>), BlogUrl,
               Iso(2025, 4, 1), NoCell, Cell(<<"Wallets", ",", "AI">>)),
           Row(Cell(<<"Crypto Wallet Basics">>), BlogUrl,
               Iso(2024, 4, 1), NoCell, Cell(<<"Adoption", ",", "AI">>)),
           Row(Cell(<<"Transak Raises Series A">>), BlogUrl,
               Iso(2023, 6, 1), NoCell, Cell(<<"Airdrops">>))>>)

\* five rows: a title three category rules match, a title for each of the
\* three fallbacks, and a "how to" title with a year token
InferenceFile ==
    File(Columns,
         <<Row(Cell(<<"How to Buy USDC Now Available on Transak">>), BlogUrl,
               Iso(2025, 8, 20), NoCell, NoCell),
           Row(Cell(<<"Transak for Developers">>), BlogUrl,
               Iso(2025, 4, 1), NoCell, NoCell),
           Row(Cell(<<"Crypto Wallet Basics">>), BlogUrl,
               Iso(2024, 10, 1), NoCell, NoCell),
           Row(Cell(<<"Hello World">>), BlogUrl,
               Iso(2023, 6, 1), NoCell, NoCell),
           Row(Cell(<<"How to Buy Crypto in 2023">>), BlogUrl,
               Iso(2022, 6, 1), NoCell, NoCell)>>)

\* one row whose tags are a synonym of the table and the name of a property
\* every object inherits
InheritedKeyFile ==
    File(Columns,
         <<Row(Cell(<<"Crypto Wallet Basics">>), BlogUrl,
               Iso(2025, 4, 1), NoCell, Cell(<<"Wallet", ",", WS, "Constructor">>))>>)

\* files with another header line, or none, or that cannot be read
HeaderFiles ==
    {File(h, rows) :
        h \in {{}, {"Title", "URL", "Date"}, Columns \ {"Post URL"}, Columns \ {"Publish date"},
               RequiredColumns, RequiredColumns \cup {"Author"}},
        rows \in {<<>>, TwoRows}}
        \cup {UnreadableFile}

Files ==
    BatchFiles \cup AgedFiles \cup ColumnFiles \cup DateFiles \cup HeaderFiles
        \cup {PrecedenceFile, VocabularyFile, InferenceFile, InheritedKeyFile}

\* offsets of local time: UTC-8, UTC, UTC+5:30, UTC+10
TzOffsets == {-800, 0, 550, 1000}

\* 2025-12-31T12:00Z: the last day of 2025 in every zone of TzOffsets
ClockStart == DaysFromCivil(2025, 12, 31) * DayTicks + DayTicks \div 2

\* most days the wall clock advances
MaxTicks == 1

\* localStorage.getItem returns null: there is no item
NoItem == [present |-> FALSE, text |-> <<>>]

\* the item holds text
Item(text) == [present |-> TRUE, text |-> text]

-----------------------------------------------------------------------------
(* loadArticles, lines 326-366 *)

Init ==
    /\ clock = ClockStart
    /\ tz \in TzOffsets
    /\ disk \in Files
    /\ pc = "idle"
    /\ now = 0
    /\ data = <<>>
    /\ idx = 0
    /\ articles = <<>>
    /\ evalLog = <<>>
    /\ args = <<>>
    /\ overrides = <<>>
    /\ storage = NoItem
    /\ shown = <<>>
    /\ saved = <<>>

\* the wall clock advances by a day
Tick ==
    /\ clock < ClockStart + MaxTicks * DayTicks
    /\ clock' = clock + DayTicks
    /\ UNCHANGED <<tz, disk, pc, now, data, idx, articles, evalLog, args, overrides, storage, shown, saved>>

\* line 328: readFileSync throws, the exception leaves loadArticles
ReadThrows ==
    /\ pc = "idle"
    /\ ~disk.readable
    /\ pc' = "threw"
    /\ UNCHANGED <<clock, tz, disk, now, data, idx, articles, evalLog, args, overrides, storage, shown, saved>>

\* lines 327-331
StartLoad ==
    /\ pc = "idle"
    /\ disk.readable
    /\ data' = PapaParse(disk)
    /\ now' = clock
    /\ articles' = <<>>
    /\ idx' = 0
    /\ pc' = "loop"
    /\ UNCHANGED <<clock, tz, disk, evalLog, args, overrides, storage, shown, saved>>

\* lines 333-340: the callback returns early for the row at idx
DropRow ==
    /\ pc = "loop"
    /\ idx < Len(data)
    /\ ~Survives(data[idx + 1], tz)
    /\ idx' = idx + 1
    /\ UNCHANGED <<clock, tz, disk, pc, now, data, articles, evalLog, args, overrides, storage, shown, saved>>

\* lines 333-362: the callback pushes the record of the row at idx
PushRow ==
    /\ pc = "loop"
    /\ idx < Len(data)
    /\ Survives(data[idx + 1], tz)
    /\ articles' = Append(articles,
                          MakeArticle(data[idx + 1], idx, now, tz, getFullYear(clock, tz)))
    /\ idx' = idx + 1
    /\ UNCHANGED <<clock, tz, disk, pc, now, data, evalLog, args, overrides, storage, shown, saved>>

\* line 365
ReturnSorted ==
    /\ pc = "loop"
    /\ idx = Len(data)
    /\ articles' = SortByTimestampDesc(articles)
    /\ pc' = "returned"
    /\ UNCHANGED <<clock, tz, disk, now, data, idx, evalLog, args, overrides, storage, shown, saved>>

loadArticles == ReadThrows \/ StartLoad \/ DropRow \/ PushRow \/ ReturnSorted

Next == loadArticles \/ Tick

Spec == Init /\ [][Next]_vars

-----------------------------------------------------------------------------
(* The evaluator called on its own, at different moments *)

EvalTitles ==
    {"How to Buy Crypto", "Countdown Guide for Beginners",
     "DeFi Explained 2024 Edition", "DeFi Explained 2025 Edition"}

EvalAges == {4, 13}

ContentTypes == {"evergreen", "semi-evergreen", "time-sensitive", "news"}

EvalInit ==
    /\ clock = ClockStart
    /\ tz \in TzOffsets
    /\ disk = UnreadableFile
    /\ pc = "eval"
    /\ now = 0
    /\ data = <<>>
    /\ idx = 0
    /\ articles = <<>>
    /\ evalLog = <<>>
    /\ args = <<>>
    /\ overrides = <<>>
    /\ storage = NoItem
    /\ shown = <<>>
    /\ saved = <<>>

\* one call of assessFreshness; the log keeps its arguments, the calendar year
\* of the wall clock at the call, and what it returned
Evaluate ==
    /\ pc = "eval"
    /\ Len(evalLog) < MaxCalls
    /\ \E title \in EvalTitles, ageMonths \in EvalAges, contentType \in ContentTypes :
          evalLog' = Append(evalLog,
                            [title |-> title, ageMonths |-> ageMonths,
                             contentType |-> contentType,
                             year |-> getFullYear(clock, tz),
                             verdict |-> assessFreshness(title, ageMonths, contentType,
                                                         getFullYear(clock, tz))])
    /\ UNCHANGED <<clock, tz, disk, pc, now, data, idx, articles, args, overrides, storage, shown, saved>>

EvalNext == Evaluate \/ Tick

SpecEval == EvalInit /\ [][EvalNext]_vars

-----------------------------------------------------------------------------
(* The evaluator as a table: one call on every title, age and content type *)

\* the oldest age of the table, in months
MaxAge == 50

TableInit ==
    /\ clock = ClockStart
    /\ tz \in TzOffsets
    /\ disk = UnreadableFile
    /\ pc = "table"
    /\ now = 0
    /\ data = <<>>
    /\ idx = 0
    /\ articles = <<>>
    /\ evalLog = <<>>
    /\ args \in [title : TitleTexts, ageMonths : 0..MaxAge, contentType : ContentTypes]
    /\ overrides = <<>>
    /\ storage = NoItem
    /\ shown = <<>>
    /\ saved = <<>>

\* the call of assessFreshness on args
EvaluateArgs ==
    /\ pc = "table"
    /\ evalLog' = <<[title |-> args.title, ageMonths |-> args.ageMonths,
                     contentType |-> args.contentType,
                     year |-> getFullYear(clock, tz),
                     verdict |-> assessFreshness(args.title, args.ageMonths,
                                                 args.contentType,
                                                 getFullYear(clock, tz))]>>
    /\ pc' = "evaluated"
    /\ UNCHANGED <<clock, tz, disk, now, data, idx, articles, args, overrides, storage, shown, saved>>

TableNext == EvaluateArgs \/ Tick

SpecTable == TableInit /\ [][TableNext]_vars

-----------------------------------------------------------------------------
(* The Dashboard component of src/app/dashboard.tsx and its manual overrides *)

\* line 13
FRESHNESS_OPTIONS == {"fresh", "aging", "stale", "needs-update"}

\* An optional field of an Override (lines 25-29) is a record: defined tells
\* whether the field is there, val is its value.  A text is a sequence of
\* pieces, "" is <<>>.
\* None("") is an undefined freshness, None(<<>>) an undefined text.
Some(v) == [defined |-> TRUE, val |-> v]
None(empty) == [defined |-> FALSE, val |-> empty]

\* the Override {}
EmptyOverride == [freshness |-> None(""), reasoning |-> None(<<>>), notes |-> None(<<>>)]

\* !field is false; empty is "" for a freshness and <<>> for a text
Truthy(field, empty) == field.defined /\ field.val # empty

\* line 121: { freshness, reasoning, notes: notes || undefined }
ModalOverride(freshness, reasoning, notes) ==
    [freshness |-> Some(freshness),
     reasoning |-> Some(reasoning),
     notes     |-> IF notes # <<>> THEN Some(notes) ELSE None(<<>>)]

\* JSON.stringify(next): the ids with, for each, the fields that are defined
JSONStringify(map) ==
    [id \in DOMAIN map |->
        [f \in {g \in {"freshness", "reasoning", "notes"} : map[id][g].defined} |->
            map[id][f].val]]

\* JSON.parse(saved): a field the text does not have is undefined
JSONParse(text) ==
    [id \in DOMAIN text |->
        [freshness |-> IF "freshness" \in DOMAIN text[id]
                       THEN Some(text[id]["freshness"]) ELSE None(""),
         reasoning |-> IF "reasoning" \in DOMAIN text[id]
                       THEN Some(text[id]["reasoning"]) ELSE None(<<>>),
         notes     |-> IF "notes" \in DOMAIN text[id]
                       THEN Some(text[id]["notes"]) ELSE None(<<>>)]]

\* a plausible slip: the updater builds next from {} and not from prev
saveOverrideFromEmpty(prev, id, override) ==
    IF /\ ~Truthy(override.freshness, "")
       /\ ~Truthy(override.reasoning, <<>>)
       /\ ~Truthy(override.notes, <<>>)
    THEN <<>>
    ELSE (id :> override)

\* lines 162-170: the next overrides the updater of saveOverride returns
saveOverride(prev, id, override) ==
    IF /\ ~Truthy(override.freshness, "")
       /\ ~Truthy(override.reasoning, <<>>)
       /\ ~Truthy(override.notes, <<>>)
    THEN [k \in DOMAIN prev \ {id} |-> prev[k]]
    ELSE [k \in DOMAIN prev \cup {id} |-> IF k = id THEN override ELSE prev[k]]

\* lines 176-184: the array articles.map returns
enrichedArticles(as, ovs) ==
    [i \in 1..Len(as) |->
        LET a == as[i]
        IN  IF a.id \notin DOMAIN ovs THEN a
            ELSE LET o == ovs[a.id]
                 IN  [a EXCEPT
                        !.freshness = IF Truthy(o.freshness, "") THEN o.freshness.val
                                      ELSE a.freshness,
                        !.reasoning = IF o.reasoning.defined THEN o.reasoning.val
                                      ELSE a.reasoning]]

\* a plausible slip: the callback assigns the override to the fields of a
mappedRecordsAssigned(as, ovs) == enrichedArticles(as, ovs)

\* lines 176-184: the records of the articles prop after articles.map: the
\* callback returns a or a copy made by the spread, it assigns to no field of a
mappedRecords(as, ovs) == as

\* what an editor leaves in the fields of the modal: freshness, reasoning, notes
ModalInputs ==
    {[freshness |-> "fresh", reasoning |-> <<>>, notes |-> <<>>],
     [freshness |-> "aging", reasoning |-> <<>>, notes |-> <<"Ask the product team">>],
     [freshness |-> "stale", reasoning |-> <<"Checked by the editor">>, notes |-> <<>>],
     [freshness |-> "needs-update", reasoning |-> <<"Checked by the editor">>,
      notes |-> <<"Ask the product team">>]}

\* the item a session before left: none, or overrides of the ids 0 and 1
StoredOverrides ==
    (0 :> ModalOverride("stale", <<"Checked by the editor">>, <<>>))
    @@ (1 :> ModalOverride("aging", <<>>, <<"Ask the product team">>))

StoredItems == {NoItem, Item(JSONStringify(StoredOverrides))}

\* three rows: the first is dropped, the third is the older of the other two
DashRows ==
    <<Row(Cell(<<"Hello World">>), Cell(<<"https://transak.com", "/press/", "post">>),
          Iso(2025, 4, 1), NoCell, NoCell),
      Row(Cell(<<"What is a Stablecoin? A Beginner's Guide">>), BlogUrl,
          Iso(2025, 4, 1), NoCell, NoCell),
      Row(Cell(<<"How to Buy Crypto in 2023">>), BlogUrl,
          Iso(2024, 4, 1), NoCell, NoCell)>>

DashFile == File(Columns, DashRows)

\* a file that cannot be read, and the file of the three rows
DashFiles == {UnreadableFile, DashFile}

\* a row an editor adds to the file
AddedRow ==
    Row(Cell(<<"Crypto Wallet Basics">>), BlogUrl, Iso(2025, 8, 20), NoCell, NoCell)

\* the sequence without its k-th element
Without(seq, k) == SubSeq(seq, 1, k - 1) \o SubSeq(seq, k + 1, Len(seq))

\* the file after an edit: a row added before or after the others, the second
\* row removed, or the Post URL of the second row deleted, which makes the row
\* invalid
EditedFiles ==
    {File(Columns, <<AddedRow>> \o DashRows),
     File(Columns, Append(DashRows, AddedRow)),
     File(Columns, Without(DashRows, 2)),
     File(Columns, [DashRows EXCEPT ![2] = [@ EXCEPT !["Post URL"] = NoCell]])}

DashInit ==
    /\ clock = ClockStart
    /\ tz \in TzOffsets
    /\ disk \in DashFiles
    /\ pc = "idle"
    /\ now = 0
    /\ data = <<>>
    /\ idx = 0
    /\ articles = <<>>
    /\ evalLog = <<>>
    /\ args = <<>>
    /\ overrides = <<>>
    /\ storage \in StoredItems
    /\ shown = <<>>
    /\ saved = <<>>

\* the first render of <Dashboard articles={articles} .../> (page.tsx, line 9):
\* overrides is {} (line 149)
Render ==
    /\ pc = "returned"
    /\ shown' = enrichedArticles(articles, overrides)
    /\ articles' = mappedRecords(articles, overrides)
    /\ pc' = "rendered"
    /\ UNCHANGED <<clock, tz, disk, now, data, idx, evalLog, args, overrides, storage, saved>>

\* lines 153-158: the effect after the first render, and the render it causes
LoadOverrides ==
    /\ pc = "rendered"
    /\ overrides' = IF storage.present THEN JSONParse(storage.text) ELSE overrides
    /\ shown' = enrichedArticles(articles, overrides')
    /\ articles' = mappedRecords(articles, overrides')
    /\ pc' = "mounted"
    /\ UNCHANGED <<clock, tz, disk, now, data, idx, evalLog, args, storage, saved>>

\* the history after onSave(override) in the modal of the article a
Remember(hist, a, override) ==
    IF override = EmptyOverride
    THEN [k \in DOMAIN hist \ {a.id} |-> hist[k]]
    ELSE [k \in DOMAIN hist \cup {a.id} |->
             IF k = a.id THEN [override |-> override, title |-> a.title, url |-> a.url]
             ELSE hist[k]]

\* "Save changes" in the modal of the article id (lines 121, 455, 161-172)
SaveChanges ==
    /\ pc = "mounted"
    /\ \E i \in 1..Len(articles), input \in ModalInputs :
          LET override == ModalOverride(input.freshness, input.reasoning, input.notes)
          IN  /\ overrides' = saveOverride(overrides, articles[i].id, override)
              /\ saved' = Remember(saved, articles[i], override)
    /\ storage' = Item(JSONStringify(overrides'))
    /\ shown' = enrichedArticles(articles, overrides')
    /\ articles' = mappedRecords(articles, overrides')
    /\ UNCHANGED <<clock, tz, disk, pc, now, data, idx, evalLog, args>>

\* "Reset to auto" in the modal of the article id (lines 112, 455, 161-172)
ResetToAuto ==
    /\ pc = "mounted"
    /\ \E i \in 1..Len(articles) :
          /\ overrides' = saveOverride(overrides, articles[i].id, EmptyOverride)
          /\ saved' = Remember(saved, articles[i], EmptyOverride)
    /\ storage' = Item(JSONStringify(overrides'))
    /\ shown' = enrichedArticles(articles, overrides')
    /\ articles' = mappedRecords(articles, overrides')
    /\ UNCHANGED <<clock, tz, disk, pc, now, data, idx, evalLog, args>>

\* "Reset all", confirmed (lines 264-267): the button is there when some
\* override is
ResetAll ==
    /\ pc = "mounted"
    /\ DOMAIN overrides # {}
    /\ overrides' = <<>>
    /\ storage' = NoItem
    /\ saved' = <<>>
    /\ shown' = enrichedArticles(articles, overrides')
    /\ articles' = mappedRecords(articles, overrides')
    /\ UNCHANGED <<clock, tz, disk, pc, now, data, idx, evalLog, args>>

\* the file is edited and the page is requested again: Page calls loadArticles
\* anew (page.tsx, line 5) and a new Dashboard is mounted, whose overrides are
\* {} (line 149); the localStorage item stays
Reload ==
    /\ pc = "mounted"
    /\ disk = DashFile
    /\ disk' \in EditedFiles
    /\ overrides' = <<>>
    /\ shown' = <<>>
    /\ pc' = "idle"
    /\ UNCHANGED <<clock, tz, now, data, idx, articles, evalLog, args, storage, saved>>

DashNext ==
    \/ loadArticles \/ Render \/ LoadOverrides \/ SaveChanges \/ ResetToAuto \/ ResetAll
    \/ Reload

SpecDash == DashInit /\ [][DashNext]_vars

-----------------------------------------------------------------------------
(* Properties *)

Indices(seq) == 1..Len(seq)

\* the parsed row a record was made from: the record's id is its forEach index
SourceRow(a) == data[a.id + 1]

\* the date text of a parsed row whose Publish date is not blank
DateOf(row) == Trim(row["Publish date"].str, WSDate)[1]

NoDuplicates(seq) == \A i, j \in Indices(seq) : seq[i] = seq[j] => i = j

\* C1: after a load the ids of the returned records are exactly 0..n-1, n the
\* number of returned records
C1_IdsContiguous ==
    pc = "returned" =>
        {articles[i].id : i \in Indices(articles)} = 0..(Len(articles) - 1)

\* C2: every record whose contentType is news has freshness fresh
C2_NewsAlwaysFresh ==
    \A i \in Indices(articles) :
        articles[i].contentType = "news" => articles[i].freshness = "fresh"

\* a load returned a news record a year old or more, and it is fresh
C2_Witness ==
    /\ pc = "returned"
    /\ \E i \in Indices(articles) :
          /\ articles[i].contentType = "news"
          /\ articles[i].ageMonths >= 12
          /\ articles[i].freshness = "fresh"

\* C3: ageMonths is a non-negative integer, the floor of (now - publishTimestamp)
\* over 30.44 days when that difference is not negative, and 0 when it is
C3_AgeIsFloor ==
    \A i \in Indices(articles) :
        LET a    == articles[i]
            diff == now - a.publishTimestamp
        IN  /\ a.ageMonths \in Nat
            /\ diff >= 0 => /\ a.ageMonths * MonthTicks <= diff
                            /\ diff < (a.ageMonths + 1) * MonthTicks
            /\ diff < 0 => a.ageMonths = 0

\* a load returned a record published in the future and a record more than half
\* way between two whole months of age
C3_Witness ==
    /\ pc = "returned"
    /\ \E i, j \in Indices(articles) :
          /\ now - articles[i].publishTimestamp < 0
          /\ articles[i].ageMonths = 0
          /\ articles[j].ageMonths >= 1
          /\ 2 * ((now - articles[j].publishTimestamp) % MonthTicks) > MonthTicks

\* C4: the returned collection is sorted descending by publishTimestamp
C4_SortedDescending ==
    pc = "returned" =>
        \A i \in Indices(articles) :
            i < Len(articles) =>
                articles[i].publishTimestamp >= articles[i + 1].publishTimestamp

\* a load returned rows in another order than the file had them
C4_Witness ==
    /\ pc = "returned"
    /\ \E i \in Indices(articles) :
          /\ i < Len(articles)
          /\ articles[i].id > articles[i + 1].id
          /\ articles[i].publishTimestamp > articles[i + 1].publishTimestamp

SameArguments(c1, c2) ==
    /\ c1.title = c2.title
    /\ c1.ageMonths = c2.ageMonths
    /\ c1.contentType = c2.contentType

RowAccepted(row) ==
    /\ row["Post title"].defined
    /\ Trim(row["Post title"].str, WS) # <<>>
    /\ row["Post URL"].defined
    /\ Trim(row["Post URL"].str, WS) # <<>>
    /\ \E i \in Indices(row["Post URL"].str) :
          row["Post URL"].str[i] \in {"/blog/", "/blog-old/"}
    /\ row["Publish date"].defined
    /\ ~parseFlexibleDate(row["Publish date"].str, tz).isNull

\* C6: a row is in the output exactly when its trimmed title and URL are not
\* empty, the URL has a blog path marker and the date parses; such a row is
\* emitted exactly once, any other row not at all, and no row makes the load fail
C6_RowsFilteredSilently ==
    /\ pc = "threw" => ~disk.readable
    /\ pc = "returned" =>
          /\ \A k \in Indices(data) :
                Cardinality({i \in Indices(articles) : articles[i].id = k - 1})
                    = IF RowAccepted(data[k]) THEN 1 ELSE 0
          /\ \A i \in Indices(articles) :
                /\ articles[i].id \in 0..(Len(data) - 1)
                /\ <<articles[i].title>> = Trim(SourceRow(articles[i])["Post title"].str, WS)

\* a load returned a row that follows a dropped row, and a "/blog-old/" row
C6_Witness ==
    /\ pc = "returned"
    /\ Len(data) = 3
    /\ ~RowAccepted(data[1])
    /\ RowAccepted(data[2])
    /\ includes(data[3]["Post URL"].str, "/blog-old/")
    /\ Len(articles) = 2

\* C7: a load of a malformed source file (unreadable, or without the header
\* columns) never returns a collection
C7_MalformedFileFails ==
    Malformed(disk) => pc # "returned"

\* C8: no record has two equal categories or two equal tags
C8_NoDuplicateLabels ==
    \A i \in Indices(articles) :
        /\ NoDuplicates(articles[i].categories)
        /\ NoDuplicates(articles[i].tags)

\* a load returned a record whose Tags cell named one tag twice
C8_Witness ==
    /\ pc = "returned"
    /\ \E i \in Indices(articles) :
          LET rawTags == splitAndClean(OrEmpty(SourceRow(articles[i])["Tags"]))
          IN  /\ Len(rawTags) > Len(articles[i].tags)
              /\ Len(articles[i].tags) > 0

\* the named-month date text and the slash date text write the same day of the calendar
SameCalendarDay(named, slash) ==
    /\ named.form = "named"
    /\ slash.form = "slash"
    /\ MonthNumber(named.mon) \in 1..12
    /\ named.n1 \in 1..DaysInMonth(named.y, MonthNumber(named.mon))
    /\ slash.n1 = named.n1
    /\ slash.n2 = MonthNumber(named.mon)
    /\ slash.y = named.y

\* C9: a row dated in the named-month form and a row dated in the slash form
\* (day/month/year) of the same calendar day get the same publishTimestamp and
\* the same publishDate, in every timezone
C9_DateFormsAgree ==
    \A i, j \in Indices(articles) :
        SameCalendarDay(DateOf(SourceRow(articles[i])), DateOf(SourceRow(articles[j])))
            => /\ articles[i].publishTimestamp = articles[j].publishTimestamp
               /\ articles[i].publishDate = articles[j].publishDate

\* a load away from UTC returned the two forms of one day whose day and month differ
C9_Witness ==
    /\ pc = "returned"
    /\ tz # 0
    /\ \E i, j \in Indices(articles) :
          /\ SameCalendarDay(DateOf(SourceRow(articles[i])), DateOf(SourceRow(articles[j])))
          /\ DateOf(SourceRow(articles[j])).n1 # DateOf(SourceRow(articles[j])).n2
          /\ articles[i].publishDate = articles[j].publishDate

\* C10: a record whose row has a Categories cell that is not empty after
\* splitting and trimming has exactly those categories, in column order
C10_ExplicitCategoriesKept ==
    \A i \in Indices(articles) :
        LET rawCategories == splitAndClean(OrEmpty(SourceRow(articles[i])["Categories"]))
        IN  Len(rawCategories) > 0 => articles[i].categories = rawCategories

\* the entries of a Tags cell: its atoms that are neither whitespace nor a comma
Entries(cell) ==
    IF cell.defined
    THEN {cell.str[k] : k \in {n \in Indices(cell.str) : cell.str[n] \notin {WS, ","}}}
    ELSE {}

Range(seq) == {seq[k] : k \in Indices(seq)}

\* C11: the tags of a record are the canonical forms of the entries of its Tags
\* cell when the cell has an entry, and the canonical forms of the tags inferred
\* from the title when the cell is absent, blank, or only commas and whitespace
C11_TagsExplicitOrInferred ==
    \A i \in Indices(articles) :
        LET a    == articles[i]
            cell == SourceRow(a)["Tags"]
        IN  IF Entries(cell) # {}
            THEN Range(a.tags) = {normalizeTag(t) : t \in Entries(cell)}
            ELSE a.tags = normalizeTags(inferTags(a.title))

\* a load returned a record whose Tags cell holds only commas and whitespace and
\* whose tags are inferred, and a record with two tags of its Tags cell, one of
\* them not inferred from its title
C11_Witness ==
    /\ pc = "returned"
    /\ \E i, j \in Indices(articles) :
          /\ SourceRow(articles[i])["Tags"].defined
          /\ SourceRow(articles[i])["Tags"].str # <<>>
          /\ Entries(SourceRow(articles[i])["Tags"]) = {}
          /\ articles[i].tags = inferTags(articles[i].title)
          /\ articles[i].tags # <<>>
          /\ Cardinality(Entries(SourceRow(articles[j])["Tags"])) > 1
          /\ Len(articles[j].tags) > 1
          /\ inferTags(articles[j].title) # <<>>
          /\ ~(Range(articles[j].tags) \subseteq Range(inferTags(articles[j].title)))

\* the title has none of the news phrasings of lines 46-47
NoNewsPhrasing(title) == ~Test(ReL46, title) /\ ~Test(ReL47, title)

\* the calendar year in which the load began
LoadYear == getFullYear(now, tz)

\* C12: a record whose title has forecast/prediction phrasing and the year token
\* of the year before the load, and no news phrasing, is time-sensitive and stale
C12_LastYearForecastStale ==
    \A i \in Indices(articles) :
        LET a == articles[i]
        IN  /\ Test(ReL56, a.title)
            /\ Test(ReL128, a.title)
            /\ ReL128Year[a.title] = LoadYear - 1
            /\ NoNewsPhrasing(a.title)
            => /\ a.contentType = "time-sensitive"
               /\ a.freshness = "stale"

\* C13: a record whose title starts with "How to" and mentions a year of
\* 2020-2024, with no news phrasing, is semi-evergreen, and is needs-update by
\* the older-year rule of the semi-evergreen branch
C13_HowToOlderYearSemiEvergreen ==
    \A i \in Indices(articles) :
        LET a == articles[i]
        IN  /\ Test(ReL77, a.title)
            /\ Test(ReL114, a.title)
            /\ NoNewsPhrasing(a.title)
            => /\ a.contentType = "semi-evergreen"
               /\ a.freshness = "needs-update"
               /\ a.reasoning = <<"Title references an older year -- reads as outdated to visitors">>

\* some category of the record is one of those line 45 takes for news
HasNewsCategory(categories) ==
    SomeIn(LowerAll(categories),
           {"announcements", "partnerships", "new listings", "product", "case studies"})

\* the title has one of the explainer phrasings of lines 63-67
ExplainerPhrasing(title) ==
    \/ Test(ReL63, title) \/ Test(ReL64, title) \/ Test(ReL65, title)
    \/ Test(ReL66, title) \/ Test(ReL67, title)

\* C14: a record whose title has explainer phrasing, no year token, no event or
\* forecast phrasing, no news phrasing, and none of whose categories signals
\* news, is evergreen, and fresh when younger than 24 months
C14_ExplainerEvergreen ==
    \A i \in Indices(articles) :
        LET a == articles[i]
        IN  /\ ExplainerPhrasing(a.title)
            /\ ~Test(ReL54, a.title)
            /\ ~Test(ReL55, a.title)
            /\ ~Test(ReL56, a.title)
            /\ NoNewsPhrasing(a.title)
            /\ ~HasNewsCategory(a.categories)
            => /\ a.contentType = "evergreen"
               /\ a.ageMonths < 24 => a.freshness = "fresh"

\* a load returned "What is a Stablecoin? A Beginner's Guide" at age 10 months,
\* evergreen and fresh
C14_Witness ==
    /\ pc = "returned"
    /\ \E i \in Indices(articles) :
          /\ articles[i].title = "What is a Stablecoin? A Beginner's Guide"
          /\ articles[i].ageMonths = 10
          /\ articles[i].contentType = "evergreen"
          /\ articles[i].freshness = "fresh"

\* C15: a record whose title has the partnership, launch or integration phrasing
\* of line 46 or the "now available/live/supports" phrasing of line 47 is news
\* and fresh, whatever year token, event, forecast or explainer phrasing or
\* "how to" prefix the title also has
C15_NewsPhrasingFirst ==
    \A i \in Indices(articles) :
        LET a == articles[i]
        IN  Test(ReL46, a.title) \/ Test(ReL47, a.title)
            => /\ a.contentType = "news"
               /\ a.freshness = "fresh"

\* a load returned four news records that news phrasing alone decides: the
\* partnership title at age 30 months, a title with a year token, a title with a
\* "how to" prefix and a title with explainer phrasing, none with a news category
C15_Witness ==
    /\ pc = "returned"
    /\ \E i, j, k, l \in Indices(articles) :
          /\ articles[i].title = "Transak Partners with MetaMask to Launch New Feature"
          /\ articles[i].ageMonths = 30
          /\ Test(ReL54, articles[j].title)
          /\ Test(ReL77, articles[k].title)
          /\ ExplainerPhrasing(articles[l].title)
          /\ \A n \in {i, j, k, l} :
                /\ ~NoNewsPhrasing(articles[n].title)
                /\ articles[n].contentType = "news"
                /\ articles[n].freshness = "fresh"
          /\ \A n \in {j, k, l} : ~HasNewsCategory(articles[n].categories)

\* the evaluator calls of the log on one content type
CallsOn(contentType) ==
    {evalLog[i] : i \in {n \in Indices(evalLog) : evalLog[n].contentType = contentType}}

\* C16: on evergreen the evaluator returns fresh below 24 months, aging from 24
\* and below 36, stale from 36 and below 48, needs-update from 48, for every title
C16_EvergreenTiers ==
    \A c \in CallsOn("evergreen") :
        c.verdict.freshness =
            IF c.ageMonths < 24 THEN "fresh"
            ELSE IF c.ageMonths < 36 THEN "aging"
            ELSE IF c.ageMonths < 48 THEN "stale"
            ELSE "needs-update"

\* an evergreen call at the boundary of 48 months returned needs-update
C16_Witness ==
    \E c \in CallsOn("evergreen") :
        c.ageMonths = 48 /\ c.verdict.freshness = "needs-update"

\* freshness by age alone, with the three thresholds of a content type
ByAge(ageMonths, t1, t2, t3) ==
    IF ageMonths < t1 THEN "fresh"
    ELSE IF ageMonths < t2 THEN "aging"
    ELSE IF ageMonths < t3 THEN "stale"
    ELSE "needs-update"

\* C17: on semi-evergreen the evaluator returns needs-update at every age for a
\* title that mentions a year of 2020-2024; otherwise stale for a title that
\* mentions 2025 at an age above 12 months; otherwise fresh below 12 months,
\* aging from 12 and below 18, stale from 18 and below 24, needs-update from 24
C17_SemiEvergreenTiers ==
    \A c \in CallsOn("semi-evergreen") :
        c.verdict.freshness =
            IF Test(ReL114, c.title) THEN "needs-update"
            ELSE IF Test(ReL117, c.title) /\ c.ageMonths > 12 THEN "stale"
            ELSE ByAge(c.ageMonths, 12, 18, 24)

\* a semi-evergreen call on a title that mentions 2025 and no older year, at the
\* age of 12 months, returned aging
C17_Witness ==
    \E c \in CallsOn("semi-evergreen") :
        /\ Test(ReL117, c.title)
        /\ ~Test(ReL114, c.title)
        /\ c.ageMonths = 12
        /\ c.verdict.freshness = "aging"

\* the first year token of the title, 0 when it has none
YearToken(title) == IF Test(ReL128, title) THEN ReL128Year[title] ELSE 0

\* C18: on time-sensitive, with Y the year token of the title and C the calendar
\* year of the call, the evaluator returns needs-update when Y < C-1, stale when
\* Y = C-1, fresh when Y = C, at every age; when Y > C or the title has no year
\* token it returns needs-update for an event or countdown title older than 3
\* months, and otherwise fresh below 6 months, aging from 6 and below 12,
\* needs-update from 12
C18_TimeSensitiveTiers ==
    \A c \in CallsOn("time-sensitive") :
        LET Y == YearToken(c.title)
            C == c.year
        IN  c.verdict.freshness =
                IF Y # 0 /\ Y < C - 1 THEN "needs-update"
                ELSE IF Y # 0 /\ Y = C - 1 THEN "stale"
                ELSE IF Y # 0 /\ Y = C THEN "fresh"
                ELSE IF Test(ReL143, c.title) /\ c.ageMonths > 3 THEN "needs-update"
                ELSE ByAge(c.ageMonths, 6, 12, 12)

\* a time-sensitive call on an event title with a year token after the year of
\* the call fell through to the event rule and returned fresh at 3 months, and
\* the title has another verdict at 4 months
C18_Witness ==
    \E c \in CallsOn("time-sensitive") :
        /\ YearToken(c.title) > c.year
        /\ Test(ReL143, c.title)
        /\ c.ageMonths = 3
        /\ c.verdict.freshness = "fresh"
        /\ assessFreshness(c.title, 4, "time-sensitive", c.year).freshness = "needs-update"

\* the labels of seq are each there once, in ascending order of their code units
StrictlyAscending(seq) ==
    \A i, j \in Indices(seq) : i < j => UnitsLess(CodeUnits[seq[i]], CodeUnits[seq[j]])

\* C19: the category vocabulary of the returned collection holds exactly the
\* labels in the categories of some record, each once, in ascending
\* lexicographic order; so does the tag vocabulary for the tags of the records
C19_VocabulariesSortedDistinct ==
    pc = "returned" =>
        /\ Range(getAllCategories(articles))
              = UNION {Range(articles[i].categories) : i \in Indices(articles)}
        /\ StrictlyAscending(getAllCategories(articles))
        /\ Range(getAllTags(articles))
              = UNION {Range(articles[i].tags) : i \in Indices(articles)}
        /\ StrictlyAscending(getAllTags(articles))

\* a load returned records that share a tag and whose tags are met in another
\* order than the sorted one, "AI" before "Adoption" in the vocabulary
C19_Witness ==
    /\ pc = "returned"
    /\ \E i, j \in Indices(articles) :
          /\ i # j
          /\ Range(articles[i].tags) \cap Range(articles[j].tags) # {}
    /\ getAllTags(articles) # Dedup(AllLabels(articles, "tags"))
    /\ getAllTags(articles) = <<"AI", "Adoption", "Airdrops", "Wallets">>
    /\ Len(getAllCategories(articles)) > 1

\* the Dashboard component has been handed the returned collection
Handed == pc \in {"returned", "rendered", "mounted"}

\* the displayed record of every article is the record itself when its id has
\* no override, and differs from it in freshness and reasoning at most
ShownAsRecorded ==
    pc \in {"rendered", "mounted"} =>
        /\ Len(shown) = Len(articles)
        /\ \A i \in Indices(articles) :
              /\ articles[i].id \notin DOMAIN overrides => shown[i] = articles[i]
              /\ [shown[i] EXCEPT !.freshness = articles[i].freshness,
                                  !.reasoning = articles[i].reasoning] = articles[i]

\* C20: once the collection is handed to the dashboard no step (render, load
\* of the stored overrides, save, reset to auto, reset all) changes a field of
\* a record; the displayed freshness and reasoning differ from the record's
\* only for an id that has an override in the overrides map
C20_RecordsNeverMutated ==
    /\ []ShownAsRecorded
    /\ [][Handed => articles' = articles]_vars

\* two records are displayed, one with the freshness and reasoning of its
\* override, which is also in the stored item, one without override as recorded
C20_Witness ==
    /\ pc = "mounted"
    /\ storage.present
    /\ \E i, j \in Indices(articles) :
          /\ articles[i].id \in DOMAIN overrides
          /\ articles[i].id \in DOMAIN storage.text
          /\ shown[i].freshness # articles[i].freshness
          /\ shown[i].reasoning # articles[i].reasoning
          /\ articles[j].id \notin DOMAIN overrides
          /\ shown[j] = articles[j]


\* the ids whose entry differs between two override maps
ChangedIds(before, after) ==
    {k \in DOMAIN before \cup DOMAIN after :
        \/ k \notin DOMAIN before
        \/ k \notin DOMAIN after
        \/ before[k] # after[k]}

\* the overrides state and the stored item hold the same map, and this map
\* holds the last saved override of every id saved and not reset
SavedOverridesHeld ==
    pc = "mounted" =>
        /\ \A id \in DOMAIN saved :
              /\ id \in DOMAIN overrides
              /\ overrides[id] = saved[id].override
        /\ IF storage.present THEN JSONParse(storage.text) = overrides
           ELSE overrides = <<>>

\* the load of the stored item takes every stored override and leaves the item
\* alone; a later step changes the entry of one id at most, or is "Reset all"
StepKeepsOtherIds ==
    /\ pc = "rendered" /\ pc' = "mounted" /\ storage.present =>
          /\ overrides' = JSONParse(storage.text)
          /\ storage' = storage
    /\ pc = "mounted" /\ pc' = "mounted" =>
          \/ Cardinality(ChangedIds(overrides, overrides')) <= 1
          \/ overrides' = <<>> /\ ~storage'.present

C22_ExplainerWithYearSemiEvergreen ==
    \A i \in Indices(articles) :
        LET a == articles[i]
        IN  /\ ExplainerPhrasing(a.title)
            /\ Test(ReL70, a.title)
            /\ NoNewsPhrasing(a.title)
            /\ ~HasNewsCategory(a.categories)
            => a.contentType = "semi-evergreen"


\* the title has the case-study signal of line 87
CaseStudySignal(title) == Test(ReL87, title)

\* C23: a record whose title has a case-study signal, no news phrasing, no year
\* token, no event or forecast phrasing, no explainer phrasing and no "how to"
\* prefix, and which is not a podcast, is semi-evergreen
C23_CaseStudySemiEvergreen ==
    \A i \in Indices(articles) :
        LET a == articles[i]
        IN  /\ CaseStudySignal(a.title)
            /\ NoNewsPhrasing(a.title)
            /\ ~Test(ReL54, a.title)
            /\ ~Test(ReL55, a.title)
            /\ ~Test(ReL56, a.title)
            /\ ~ExplainerPhrasing(a.title)
            /\ ~Test(ReL77, a.title)
            /\ ~SomeIn(LowerAll(a.categories), {"podcast"})
            => a.contentType = "semi-evergreen"


\* the labels of the category rules, in the order of lines 216-271
RuleOrder ==
    <<"Podcast", "Case Studies", "Stablecoins", "New Listings", "Partnerships", "Product",
      "Announcements", "Learn">>

\* the rule of the label matches the title (lines 216-271)
Fires(label, title) ==
    CASE label = "Podcast" -> Test(ReL216, title)
      [] label = "Case Studies" -> Test(ReL219, title)
      [] label = "Stablecoins" -> Test(ReL222, title)
      [] label = "New Listings" ->
             \E re \in {ReL226, ReL227, ReL228, ReL229} : Test(re, title)
      [] label = "Partnerships" ->
             Test(ReL234, title) \/ (Test(ReL235, title) /\ Test(ReL236, title))
      [] label = "Product" ->
             \E re \in {ReL241, ReL242, ReL243, ReL244} : Test(re, title)
      [] label = "Announcements" ->
             \E re \in {ReL249, ReL250, ReL251, ReL252, ReL253, ReL254, ReL255, ReL256,
                        ReL257} : Test(re, title)
      [] label = "Learn" ->
             \E re \in {ReL262, ReL263, ReL264, ReL265, ReL266, ReL267, ReL268, ReL269,
                        ReL270, ReL271} : Test(re, title)

\* the label for a title no rule matches (lines 275-281)
FallbackLabel(title) ==
    IF Test(ReL276a, title) /\ Test(ReL276b, title) THEN "Partnerships"
    ELSE IF Test(ReL278, title) THEN "Learn"
    ELSE "Announcements"

\* the positions in RuleOrder of the elements of cats
PositionsIn(cats) ==
    [i \in 1..Len(cats) |-> CHOOSE p \in 1..Len(RuleOrder) : RuleOrder[p] = cats[i]]

\* C24: the categories of every record are a non-empty list; when some rule
\* matches the title they are the labels of exactly the matching rules in rule
\* order, each once; when none matches they are the one fallback label
C24_CategoriesRulesOrFallback ==
    \A i \in Indices(articles) :
        LET a     == articles[i]
            cats  == a.categories
            fired == {l \in Range(RuleOrder) : Fires(l, a.title)}
        IN  /\ Len(cats) > 0
            /\ Range(cats) \subseteq Range(RuleOrder)
            /\ \A j, k \in Indices(cats) :
                  j < k => PositionsIn(cats)[j] < PositionsIn(cats)[k]
            /\ fired # {} => Range(cats) = fired
            /\ fired = {} => cats = <<FallbackLabel(a.title)>>

\* a load returned a record whose title three rules match, and a record for
\* each of the three fallback labels
C24_Witness ==
    /\ pc = "returned"
    /\ \E i \in Indices(articles) :
          /\ articles[i].categories = <<"Stablecoins", "New Listings", "Learn">>
          /\ \A l \in Range(articles[i].categories) : Fires(l, articles[i].title)
    /\ \A l \in {"Partnerships", "Learn", "Announcements"} :
          \E i \in Indices(articles) :
              /\ articles[i].categories = <<l>>
              /\ \A r \in Range(RuleOrder) : ~Fires(r, articles[i].title)


\* C25: every record of a load is judged against the instant now at which the
\* load began: its ageMonths is the age at now, and its freshness and reasoning
\* are those the evaluator gives with the calendar year of now
C25_OneReferenceInstant ==
    \A i \in Indices(articles) :
        LET a == articles[i]
        IN  /\ a.ageMonths = AgeMonths(now, a.publishTimestamp)
            /\ Verdict(a.freshness, a.reasoning)
                   = assessFreshness(a.title, a.ageMonths, a.contentType, LoadYear)


\* the tag is a text, not the value of a property of Object.prototype
IsText(t) == \A k \in DOMAIN ObjectPrototype : t # ObjectPrototype[k]

\* C26: every tag of every record, explicit or inferred, is a text the
\* canonicalization leaves as it is, and no two tags of a record are different
\* with the same canonical label
C26_TagsCanonical ==
    \A i \in Indices(articles) :
        LET tags == articles[i].tags
        IN  /\ \A j \in Indices(tags) : IsText(tags[j]) /\ normalizeTag(tags[j]) = tags[j]
            /\ \A j, k \in Indices(tags) :
                  normalizeTag(tags[j]) = normalizeTag(tags[k]) => j = k


\* the order fresh < aging < stale < needs-update
Severity(freshness) ==
    CASE freshness = "fresh" -> 0
      [] freshness = "aging" -> 1
      [] freshness = "stale" -> 2
      [] freshness = "needs-update" -> 3

\* C27: for the title, content type and calendar year of an evaluator call, the
\* freshness of the call is at most as severe as the freshness at every greater
\* age
C27_MonotoneInAge ==
    \A i \in Indices(evalLog) :
        LET call == evalLog[i]
        IN  \A b \in call.ageMonths..MaxAge :
                Severity(call.verdict.freshness)
                    <= Severity(assessFreshness(call.title, b, call.contentType,
                                                call.year).freshness)

\* a call on a title with the token 2025 as semi-evergreen at age 12 returned
\* aging: one month more is stale, one month less is fresh
C27_Witness ==
    /\ pc = "evaluated"
    /\ \E i \in Indices(evalLog) :
          LET call == evalLog[i]
          IN  /\ call.contentType = "semi-evergreen"
              /\ Test(ReL117, call.title)
              /\ call.ageMonths = 12
              /\ call.verdict.freshness = "aging"
              /\ assessFreshness(call.title, 13, call.contentType, call.year).freshness
                     = "stale"
              /\ assessFreshness(call.title, 11, call.contentType, call.year).freshness
                     = "fresh"


\* the reasonings of the two year rules of the semi-evergreen branch (lines 114-119)
SemiEvergreenYearReasonings ==
    {<<"Title references an older year -- reads as outdated to visitors">>,
     <<"Title references 2025 -- will soon read as outdated">>}

C29_SlashDateKeepsDay ==
    \A i \in Indices(articles) :
        LET s == DateOf(SourceRow(articles[i]))
        IN  /\ s.form = "slash"
            /\ s.n2 \in 1..12
            /\ s.n1 \in 1..DaysInMonth(s.y, s.n2)
            => articles[i].publishDate = [y |-> s.y, m |-> s.n2, d |-> s.n1]


\* C30: an override an editor saved for an article is applied, after a reload
\* of the edited file too, to no record other than the one of that article: a
\* record whose id has the saved override has the article's title and URL
C30_OverrideStaysOnArticle ==
    pc = "mounted" =>
        \A i \in Indices(articles) :
            LET id == articles[i].id
            IN  /\ id \in DOMAIN saved
                /\ id \in DOMAIN overrides
                /\ overrides[id] = saved[id].override
                => /\ articles[i].title = saved[id].title
                   /\ articles[i].url = saved[id].url
                   /\ shown[i].freshness = saved[id].override.freshness.val

=============================================================================
